---- MODULE Spec2Model ----
(***************************************************************************)
(* Ratebook ingestion of splitlease-api: the POST /import-with-mappings    *)
(* route and importGenericRatebook, run as concurrent calls against one    *)
(* datastore (tables ratebookImports, providerRates, financeProviders and  *)
(* the read-only vehicles master).                                         *)
(*                                                                         *)
(* Node runs the code between two awaits without interruption, so each     *)
(* action is one datastore call together with the synchronous code that    *)
(* follows it up to the next datastore call.  pc[p] names the datastore    *)
(* call that call p is waiting on.                                         *)
(*                                                                         *)
(* Text is a sequence of one-character strings, so that trim() and         *)
(* toUpperCase() are computed and not assumed.                             *)
(***************************************************************************)
EXTENDS Integers, Sequences, FiniteSets, TLC

\* ---------------------------------------------------------------- bounds
\* Number of calls of the route; they are numbered in the order they arrive.
NumCalls == 2
\* Rows per sub-batch.  The source has 100 (generic-ratebook-importer.ts:286);
\* the model scales it down so that files of three rows span two sub-batches.
BATCH_SIZE == 2

Calls == 1..NumCalls

\* ------------------------------------------------------------ cell values
\* A cell of a parsed row: absent/null, a number, or text.
NULL == [t |-> "null"]
Num(n) == [t |-> "num", v |-> n]
Str(s) == [t |-> "str", v |-> s]

\* importId: "" of the duplicate outcome (no batch).
NoId == 0
\* A null mappedField in columnMappings.
NoField == "null"

\* JavaScript truthiness of a cell (the left operand of ||).
Truthy(x) ==
  CASE x.t = "null" -> FALSE
    [] x.t = "num" -> x.v # 0
    [] x.t = "str" -> x.v # <<>>

\* a || b
Or(a, b) == IF Truthy(a) THEN a ELSE b

DigitChars == <<"0", "1", "2", "3", "4", "5", "6", "7", "8", "9">>

RECURSIVE NatToText(_)
NatToText(n) ==
  IF n < 10 THEN <<DigitChars[n + 1]>>
  ELSE NatToText(n \div 10) \o <<DigitChars[(n % 10) + 1]>>

\* String(x) for the cells that reach it (never null: every use is String(v || default)).
String(x) ==
  CASE x.t = "str" -> x.v
    [] x.t = "num" -> IF x.v < 0 THEN <<"-">> \o NatToText(-x.v) ELSE NatToText(x.v)
    [] x.t = "null" -> <<"n", "u", "l", "l">>

IsSpace(c) == c = " "

RECURSIVE TrimStart(_)
TrimStart(s) == IF s # <<>> /\ IsSpace(Head(s)) THEN TrimStart(Tail(s)) ELSE s

RECURSIVE TrimEnd(_)
TrimEnd(s) ==
  IF s # <<>> /\ IsSpace(s[Len(s)]) THEN TrimEnd(SubSeq(s, 1, Len(s) - 1)) ELSE s

\* String.prototype.trim
Trim(s) == TrimEnd(TrimStart(s))

LowerLetters ==
  <<"a", "b", "c", "d", "e", "f", "g", "h", "i", "j", "k", "l", "m",
    "n", "o", "p", "q", "r", "s", "t", "u", "v", "w", "x", "y", "z">>

UpperLetters ==
  <<"A", "B", "C", "D", "E", "F", "G", "H", "I", "J", "K", "L", "M",
    "N", "O", "P", "Q", "R", "S", "T", "U", "V", "W", "X", "Y", "Z">>

UpperChar(c) ==
  IF \E k \in 1..Len(LowerLetters) : LowerLetters[k] = c
  THEN UpperLetters[CHOOSE k \in 1..Len(LowerLetters) : LowerLetters[k] = c]
  ELSE c

\* String.prototype.toUpperCase
ToUpperCase(s) == [k \in 1..Len(s) |-> UpperChar(s[k])]

LowerChar(c) ==
  IF \E k \in 1..Len(UpperLetters) : UpperLetters[k] = c
  THEN LowerLetters[CHOOSE k \in 1..Len(UpperLetters) : UpperLetters[k] = c]
  ELSE c

\* String.prototype.toLowerCase
ToLowerCase(s) == [k \in 1..Len(s) |-> LowerChar(s[k])]

\* String.prototype.endsWith
EndsWith(s, suffix) ==
  Len(suffix) <= Len(s) /\ SubSeq(s, Len(s) - Len(suffix) + 1, Len(s)) = suffix

UNKNOWN_UPPER == <<"U", "N", "K", "N", "O", "W", "N">>
UNKNOWN_MIXED == <<"U", "n", "k", "n", "o", "w", "n">>

\* ------------------------------------------------------------------ inputs
ProviderCodes == {"lex", "ald"}
ContractTypes == {"CH", "PCH"}

\* columnMappings as Object.entries gives them: sourceColumn -> targetField.
FullMapping ==
  << [col |-> "CAP_CODE", field |-> "capCode"],
     [col |-> "MAKE", field |-> "manufacturer"],
     [col |-> "MODEL", field |-> "model"],
     [col |-> "VARIANT", field |-> "variant"],
     [col |-> "TERM", field |-> "term"],
     [col |-> "MILES", field |-> "annualMileage"],
     [col |-> "RENTAL", field |-> "totalRental"] >>

\* totalRental is left unmapped (null) and term is not mentioned at all.
PartialMapping ==
  << [col |-> "CAP_CODE", field |-> "capCode"],
     [col |-> "MAKE", field |-> "manufacturer"],
     [col |-> "MODEL", field |-> "model"],
     [col |-> "MILES", field |-> "annualMileage"],
     [col |-> "RENTAL", field |-> NoField] >>

EmptyMapping == << >>

RowGood ==
  [CAP_CODE |-> Str(<<" ", "A", "1">>), MAKE |-> Str(<<"b", "w">>),
   MODEL |-> Str(<<"X">>)]
RowBare == [CAP_CODE |-> Str(<<"B", "2">>)]
RowBlank == [CAP_CODE |-> Str(<<" ">>), MAKE |-> Str(<<"b", "w">>)]
RowNoCap == [MAKE |-> Str(<<"b", "w">>), MODEL |-> Str(<<"X">>)]

\* What the parser makes of the bytes of each input file: it throws, or it
\* returns the records.
FileCatalogue ==
  [garbage |-> [throws |-> TRUE, records |-> << >>],
   empty |-> [throws |-> FALSE, records |-> << >>],
   quad |-> [throws |-> FALSE, records |-> <<RowBare, RowNoCap, RowGood, RowBlank>>]]

FileContents == DOMAIN FileCatalogue

\* errorLog: errors.slice(0, 100) and, in the outcome, errors.slice(0, 20).
ERROR_LOG_CAP == 100
OUTCOME_ERRORS_CAP == 20

\* Files with more error rows than the error lists keep: as many rows without
\* a CAP code as the outcome lists errors, then a good row; and one row
\* without a CAP code more than the error log holds.
LongFileCatalogue ==
  [short |-> [throws |-> FALSE,
              records |-> [k \in 1..(OUTCOME_ERRORS_CAP + 1) |->
                             IF k <= OUTCOME_ERRORS_CAP THEN RowBlank ELSE RowGood]],
   long |-> [throws |-> FALSE,
             records |-> [k \in 1..(ERROR_LOG_CAP + 1) |-> RowNoCap]]]

\* File names: the body's fileName decides which parser reads the bytes.
CsvName == <<"a", ".", "c", "s", "v">>
XlsxName == <<"B", ".", "X", "L", "S", "X">>
XlsName == <<"c", ".", "x", "l", "s">>

\* The body of a request, as the route destructures it.
NamedRequest(providerCode, contractType, fileContent, columnMappings, fileName) ==
  [providerCode |-> providerCode, contractType |-> contractType,
   fileContent |-> fileContent, columnMappings |-> columnMappings,
   fileName |-> fileName]

\* A request for a file sent under a CSV name.
Request(providerCode, contractType, fileContent, columnMappings) ==
  NamedRequest(providerCode, contractType, fileContent, columnMappings, CsvName)

\* Two rows, one of them without a CAP code.
NamedFileCatalogue ==
  [pair |-> [throws |-> FALSE, records |-> <<RowBare, RowBlank>>]]

\* The same bytes for two providers and two contract types, under names that
\* send them to either parser.
NamedRequests ==
  { NamedRequest("lex", "CH", "pair", FullMapping, CsvName),
    NamedRequest("lex", "PCH", "pair", FullMapping, XlsxName),
    NamedRequest("lex", "CH", "pair", FullMapping, XlsName),
    NamedRequest("ald", "CH", "pair", FullMapping, CsvName) }

\* The requests a call may carry: every file under lex/CH, one of them again
\* under another contract type and under another provider, and three bodies
\* the route turns down.
Requests ==
  { Request("lex", "CH", f, FullMapping) : f \in FileContents }
  \cup { Request("lex", "PCH", "garbage", FullMapping),
         Request("ald", "CH", "garbage", FullMapping),
         Request("lex", "CH", "", FullMapping),
         Request("lex", "CH", "quad", PartialMapping),
         Request("ald", "PCH", "quad", EmptyMapping) }

\* The requests of the long imports.
LongRequests ==
  { Request("lex", "CH", f, FullMapping) : f \in DOMAIN LongFileCatalogue \cup {"garbage"} }

\* The vehicles master (read-only): capCode -> vehicle.
Vehicles ==
  { [capCode |-> <<"B", "2">>, vehicleId |-> 7, manufacturer |-> <<"K", "I", "A">>,
     model |-> <<"E", "V">>, variant |-> <<"G", "T">>],
    [capCode |-> <<"C", "3">>, vehicleId |-> 8, manufacturer |-> <<"B", "M", "W">>,
     model |-> <<"i", "4">>, variant |-> << >>] }

\* ------------------------------------------------------------------- state
VARIABLES
  pc,               \* per call: the datastore call it waits on, or idle/done/crashed
  req,              \* per call: the request body
  loc,              \* per call: the locals of importGenericRatebook
  response,         \* per call: what the route answered
  financeProviders, \* table: the provider codes registered
  ratebookImports,  \* table: id -> ImportBatch row
  providerRates     \* table: set of RateRecord rows

vars == <<pc, req, loc, response, financeProviders, ratebookImports, providerRates>>

NoRequest ==
  [fileContent |-> "", providerCode |-> "", contractType |-> "",
   columnMappings |-> << >>, fileName |-> << >>]

NoLocals ==
  [importId |-> NoId, totalRows |-> 0, successRows |-> 0,
   errorRows |-> 0, capCodes |-> {}, errors |-> << >>, i |-> 0,
   ratesToInsert |-> << >>]

NoResult ==
  [success |-> FALSE, importId |-> NoId, totalRows |-> 0, successRows |-> 0,
   errorRows |-> 0, uniqueCapCodes |-> 0, errors |-> << >>]

NoResponse == [code |-> 0, missing |-> << >>, result |-> NoResult]

Init ==
  /\ pc = [p \in Calls |-> "idle"]
  /\ req = [p \in Calls |-> NoRequest]
  /\ loc = [p \in Calls |-> NoLocals]
  /\ response = [p \in Calls |-> NoResponse]
  /\ financeProviders = {}
  /\ ratebookImports = {}
  /\ providerRates = {}

\* ------------------------------------------------------------ pure helpers
\* generateFileHash: SHA-256 of the bytes; equal bytes give equal digests and
\* the catalogue's files are taken to have no collisions.
generateFileHash(content) == <<"sha256", content>>

\* parseCSV / parseXLSX of the request's bytes.
ParseFile(content) ==
  IF content \in DOMAIN FileCatalogue THEN FileCatalogue[content]
  ELSE IF content \in DOMAIN LongFileCatalogue THEN LongFileCatalogue[content]
  ELSE NamedFileCatalogue[content]

\* const isXLSX = fileName.toLowerCase().endsWith(".xlsx") || ....endsWith(".xls")
isXLSX(fileName) ==
  \/ EndsWith(ToLowerCase(fileName), <<".", "x", "l", "s", "x">>)
  \/ EndsWith(ToLowerCase(fileName), <<".", "x", "l", "s">>)

\* parseXLSX of the request's bytes.  The files of the catalogues are CSV
\* text; read as a workbook they are taken to make the reader throw.
ParseWorkbook(content) == [throws |-> TRUE, records |-> << >>]

\* Parse file based on type (lines 250-263).
ParseRequest(o) ==
  IF isXLSX(o.fileName) THEN ParseWorkbook(o.fileContent) ELSE ParseFile(o.fileContent)

RECURSIVE extractValue(_, _, _)
extractValue(row, targetField, columnMappings) ==
  IF columnMappings = << >> THEN NULL
  ELSE LET e == Head(columnMappings)
       IN IF e.field = targetField
          THEN (IF e.col \in DOMAIN row THEN row[e.col] ELSE NULL)
          ELSE extractValue(row, targetField, Tail(columnMappings))

\* Mutant: the CAP code is not trimmed.
RowCapCodeUntrimmed(row, columnMappings) ==
  String(Or(extractValue(row, "capCode", columnMappings), Str(<< >>)))

\* const capCode = String(extractValue(row, "capCode", columnMappings) || "").trim()
RowCapCode(row, columnMappings) ==
  Trim(String(Or(extractValue(row, "capCode", columnMappings), Str(<< >>))))

\* The rate object built for a row that has a CAP code (lines 306-374), for
\* the columns the model follows (the score columns are not among them).  id stands for the row's primary key, which
\* the datastore generates: here the batch and the row's place in the file.
BuildRate(row, capCode, rowIndex, importId, o) ==
  LET variant == extractValue(row, "variant", o.columnMappings)
  IN [id |-> <<importId, rowIndex>>,
      capCode |-> capCode,
      importId |-> importId,
      providerCode |-> o.providerCode,
      contractType |-> o.contractType,
      manufacturer |->
        ToUpperCase(Trim(String(Or(extractValue(row, "manufacturer", o.columnMappings),
                                   Str(UNKNOWN_UPPER))))),
      model |->
        Trim(String(Or(extractValue(row, "model", o.columnMappings),
                       Str(UNKNOWN_MIXED)))),
      variant |-> IF Truthy(variant) THEN Str(String(variant)) ELSE NULL,
      vehicleId |-> 0]

\* The row loop of one sub-batch (lines 293-382): st carries the locals
\* (successRows, errorRows, capCodes, errors, ratesToInsert); k counts the rows
\* of the sub-batch from 1, i is the offset of the sub-batch in the file.
RECURSIVE ProcessRows(_, _, _, _, _, _)
ProcessRows(batch, k, i, st, importId, o) ==
  IF k > Len(batch) THEN st
  ELSE LET capCode == RowCapCode(batch[k], o.columnMappings)
       IN IF capCode = << >>
          THEN ProcessRows(batch, k + 1, i,
                 [st EXCEPT !.errorRows = @ + 1,
                            !.errors =
                               Append(@, [msg |-> "Missing CAP Code",
                                          row |-> i + (k - 1) + 2])],
                 importId, o)
          ELSE ProcessRows(batch, k + 1, i,
                 [st EXCEPT !.capCodes = @ \cup {capCode},
                            !.ratesToInsert =
                               Append(@, BuildRate(batch[k], capCode, i + k,
                                                   importId, o)),
                            !.successRows = @ + 1],
                 importId, o)

\* Mutant: the slices overlap by one row.
SubBatchOverlapping(records, i) ==
  SubSeq(records, i + 1, IF i + BATCH_SIZE + 1 < Len(records) THEN i + BATCH_SIZE + 1
                         ELSE Len(records))

\* records.slice(i, i + BATCH_SIZE)
SubBatch(records, i) ==
  SubSeq(records, i + 1, IF i + BATCH_SIZE < Len(records) THEN i + BATCH_SIZE
                         ELSE Len(records))

\* The row loop over the sub-batch at offset l.i: the locals it leaves.
RowLoop(l, o) ==
  ProcessRows(SubBatch(ParseRequest(o).records, l.i), 1, l.i,
              [l EXCEPT !.ratesToInsert = << >>], l.importId, o)

\* One turn of the loop "for (let i = 0; ...)" from its head to its first
\* datastore call; when the loop is over, the scoring call is next.
EnterBatch(l, o) ==
  IF l.i < l.totalRows
  THEN LET st == RowLoop(l, o)
       IN [locals |-> st,
           next |-> IF Len(st.ratesToInsert) > 0 THEN "selectVehicles"
                    ELSE "updateProgress"]
  ELSE [locals |-> l, next |-> "executeScores"]

\* Array.prototype.slice(0, n)
Slice(s, n) == SubSeq(s, 1, IF Len(s) < n THEN Len(s) ELSE n)

\* --------------------------------------------- POST /import-with-mappings
requiredFields ==
  <<"capCode", "manufacturer", "model", "term", "annualMileage", "totalRental">>

\* Object.values(columnMappings).filter(Boolean)
mappedFields(columnMappings) ==
  {columnMappings[k].field : k \in 1..Len(columnMappings)} \ {NoField}

\* Mutant: only the first three required fields are looked for.
missingRequiredFirstThree(columnMappings) ==
  SelectSeq(SubSeq(requiredFields, 1, 3),
            LAMBDA f : f \notin mappedFields(columnMappings))

\* requiredFields.filter((f) => !mappedFields.includes(f))
missingRequired(columnMappings) ==
  SelectSeq(requiredFields, LAMBDA f : f \notin mappedFields(columnMappings))

\* The first test of the route: a falsy member of the body.
BodyIncomplete(r) ==
  \/ r.fileName = << >> \/ r.fileContent = "" \/ r.providerCode = ""
  \/ r.contractType = ""

\* The call is over: its frame (request and locals) is gone, the answer stays.
Answer(p, code, missing, result) ==
  /\ response' = [response EXCEPT ![p] =
                    [code |-> code, missing |-> missing, result |-> result]]
  /\ pc' = [pc EXCEPT ![p] = "done"]
  /\ req' = [req EXCEPT ![p] = NoRequest]
  /\ loc' = [loc EXCEPT ![p] = NoLocals]

\* res.status(400).json(result) when !result.success, res.json(result) otherwise.
AnswerResult(p, result) ==
  Answer(p, IF result.success THEN 200 ELSE 400, << >>, result)

\* throw new ApiError(..., 400): the message names the body (first test) or
\* lists the required fields left unmapped (second test).  The body stays in
\* req, so that the answer can be read against it.
Refuse(p, r, missing) ==
  /\ response' = [response EXCEPT ![p] =
                    [code |-> 400, missing |-> missing, result |-> NoResult]]
  /\ pc' = [pc EXCEPT ![p] = "done"]
  /\ req' = [req EXCEPT ![p] = r]
  /\ UNCHANGED loc

\* The route handler up to the first datastore call of importGenericRatebook.
ImportWithMappings(p) ==
  /\ pc[p] = "idle"
  /\ \A q \in Calls : q < p => pc[q] # "idle"
  /\ \E r \in Requests :
       IF BodyIncomplete(r)
       THEN /\ Refuse(p, r, <<"body">>)
            /\ UNCHANGED <<financeProviders, ratebookImports, providerRates>>
       ELSE IF missingRequired(r.columnMappings) # << >>
       THEN /\ Refuse(p, r, missingRequired(r.columnMappings))
            /\ UNCHANGED <<financeProviders, ratebookImports, providerRates>>
       ELSE /\ req' = [req EXCEPT ![p] = r]
            /\ pc' = [pc EXCEPT ![p] = "selectExisting"]
            /\ UNCHANGED <<loc, response, financeProviders, ratebookImports,
                           providerRates>>

\* ------------------------------------------------- importGenericRatebook
\* Mutant: the duplicate query looks at completed imports only.
ExistingImportCompletedOnly(fileHash, providerCode) ==
  {b \in ratebookImports : /\ b.fileHash = fileHash
                           /\ b.providerCode = providerCode
                           /\ b.status = "completed"}

\* Mutant: the duplicate query matches the content hash alone.
ExistingImportAnyProvider(fileHash, providerCode) ==
  {b \in ratebookImports : b.fileHash = fileHash}

\* The rows the duplicate query selects.
ExistingImport(fileHash, providerCode) ==
  {b \in ratebookImports : b.fileHash = fileHash /\ b.providerCode = providerCode}

DuplicateOutcome ==
  [success |-> FALSE, importId |-> NoId, totalRows |-> 0, successRows |-> 0,
   errorRows |-> 0, uniqueCapCodes |-> 0,
   errors |-> <<[msg |-> "Duplicate file detected", row |-> 0]>>]

\* Mutant: the previous latest batch is demoted before the duplicate check
\* answers.
SelectExistingImportDemoting(p) ==
  /\ pc[p] = "selectExisting"
  /\ IF ExistingImport(generateFileHash(req[p].fileContent), req[p].providerCode) # {}
     THEN AnswerResult(p, DuplicateOutcome)
     ELSE /\ pc' = [pc EXCEPT ![p] = "selectProvider"]
          /\ UNCHANGED <<req, loc, response>>
  /\ ratebookImports' =
       {IF b.providerCode = req[p].providerCode
           /\ b.contractType = req[p].contractType /\ b.isLatest
        THEN [b EXCEPT !.isLatest = FALSE] ELSE b : b \in ratebookImports}
  /\ UNCHANGED <<financeProviders, providerRates>>

\* Check for duplicate file (lines 183-201).
SelectExistingImport(p) ==
  /\ pc[p] = "selectExisting"
  /\ IF ExistingImport(generateFileHash(req[p].fileContent), req[p].providerCode) # {}
     THEN AnswerResult(p, DuplicateOutcome)
     ELSE /\ pc' = [pc EXCEPT ![p] = "selectProvider"]
          /\ UNCHANGED <<req, loc, response>>
  /\ UNCHANGED <<financeProviders, ratebookImports, providerRates>>

\* Get provider (line 204).
SelectProvider(p) ==
  /\ pc[p] = "selectProvider"
  /\ pc' = [pc EXCEPT ![p] =
              IF req[p].providerCode \in financeProviders THEN "updateLatest"
              ELSE "insertProvider"]
  /\ UNCHANGED <<req, loc, response, financeProviders, ratebookImports, providerRates>>

\* Create provider entry (lines 206-217).
InsertProvider(p) ==
  /\ pc[p] = "insertProvider"
  /\ financeProviders' = financeProviders \cup {req[p].providerCode}
  /\ pc' = [pc EXCEPT ![p] = "updateLatest"]
  /\ UNCHANGED <<req, loc, response, ratebookImports, providerRates>>

\* Mutant: every latest batch of the provider is demoted, whatever its
\* contract type.
DemotedTableAnyContract(table, providerCode, contractType) ==
  {IF b.providerCode = providerCode /\ b.isLatest
   THEN [b EXCEPT !.isLatest = FALSE] ELSE b : b \in table}

\* Mark previous imports for this contract type as not latest (lines 219-229).
DemotedTable(table, providerCode, contractType) ==
  {IF b.providerCode = providerCode /\ b.contractType = contractType /\ b.isLatest
   THEN [b EXCEPT !.isLatest = FALSE] ELSE b : b \in table}

UpdateLatest(p) ==
  /\ pc[p] = "updateLatest"
  /\ ratebookImports' =
       DemotedTable(ratebookImports, req[p].providerCode, req[p].contractType)
  /\ pc' = [pc EXCEPT ![p] = "insertImport"]
  /\ UNCHANGED <<req, loc, response, financeProviders, providerRates>>

\* The row of the import record as inserted (lines 232-246).  The datastore
\* generates the id; a call creates at most one batch, so the call's number
\* serves.
NewImportRecord(id, o) ==
  [id |-> id, providerCode |-> o.providerCode, contractType |-> o.contractType,
   fileName |-> o.fileName,
   fileHash |-> generateFileHash(o.fileContent), status |-> "processing",
   isLatest |-> TRUE, totalRows |-> 0, successRows |-> 0, errorRows |-> 0,
   uniqueCapCodes |-> 0, errorLog |-> << >>]

\* Whether the ratebookImports table turns an insert down.  The table's
\* definition (lib/db/schema) is not among the sources; the specification
\* says that the latest flag and the duplicate check are enforced by the
\* importer and not by storage, so the table accepts every row.
RejectsInsert(table, row) == FALSE

\* Create import record, then parse the file (lines 231-292).
InsertImport(p) ==
  /\ pc[p] = "insertImport"
  /\ ~RejectsInsert(ratebookImports, NewImportRecord(p, req[p]))
  /\ ratebookImports' = ratebookImports \cup {NewImportRecord(p, req[p])}
  /\ LET parsed == ParseRequest(req[p])
         l == [loc[p] EXCEPT !.importId = p, !.totalRows = Len(parsed.records)]
         e == EnterBatch(l, req[p])
     IN IF parsed.throws
        THEN /\ loc' = [loc EXCEPT ![p] = [@ EXCEPT !.importId = p]]
             /\ pc' = [pc EXCEPT ![p] = "updateParseFailed"]
        ELSE /\ loc' = [loc EXCEPT ![p] = e.locals]
             /\ pc' = [pc EXCEPT ![p] = e.next]
  /\ UNCHANGED <<req, response, financeProviders, providerRates>>

\* UPDATE ratebookImports SET ... WHERE id = importId
UpdateImport(table, id, set) ==
  {IF b.id = id
   THEN [f \in DOMAIN b |-> IF f \in DOMAIN set THEN set[f] ELSE b[f]]
   ELSE b : b \in table}

\* Mutant: the catch of the parse also takes the latest flag off the batch.
UpdateParseFailedNotLatest(p) ==
  /\ pc[p] = "updateParseFailed"
  /\ ratebookImports' =
       UpdateImport(ratebookImports, loc[p].importId,
         [status |-> "failed", isLatest |-> FALSE,
          errorLog |-> <<[msg |-> "Parse error", row |-> 0]>>])
  /\ AnswerResult(p, [success |-> FALSE, importId |-> loc[p].importId,
                      totalRows |-> 0, successRows |-> 0, errorRows |-> 1,
                      uniqueCapCodes |-> 0,
                      errors |-> <<[msg |-> "File parse error", row |-> 0]>>])
  /\ UNCHANGED <<financeProviders, providerRates>>

\* The catch of the parse (lines 264-280).
UpdateParseFailed(p) ==
  /\ pc[p] = "updateParseFailed"
  /\ ratebookImports' =
       UpdateImport(ratebookImports, loc[p].importId,
         [status |-> "failed",
          errorLog |-> <<[msg |-> "Parse error", row |-> 0]>>])
  /\ AnswerResult(p, [success |-> FALSE, importId |-> loc[p].importId,
                      totalRows |-> 0, successRows |-> 0, errorRows |-> 1,
                      uniqueCapCodes |-> 0,
                      errors |-> <<[msg |-> "File parse error", row |-> 0]>>])
  /\ UNCHANGED <<financeProviders, providerRates>>

\* The vehicles the lookup returns for a rate's CAP code (lines 391-402).
VehicleMatches(capCode) == {v \in Vehicles : v.capCode = capCode}

\* Lines 404-421 for one rate.
CrossReference(rate) ==
  IF VehicleMatches(rate.capCode) = {} THEN rate
  ELSE LET vehicle == CHOOSE v \in VehicleMatches(rate.capCode) : TRUE
       IN [rate EXCEPT
             !.vehicleId = vehicle.vehicleId,
             !.manufacturer =
                IF @ = << >> \/ @ = UNKNOWN_UPPER THEN vehicle.manufacturer ELSE @,
             !.model =
                IF @ = << >> \/ @ = UNKNOWN_MIXED THEN vehicle.model ELSE @,
             !.variant =
                IF ~Truthy(@) /\ vehicle.variant # << >> THEN Str(vehicle.variant)
                ELSE @]

\* Look up vehicle_ids for CAP codes (lines 384-422).
SelectVehicles(p) ==
  /\ pc[p] = "selectVehicles"
  /\ loc' = [loc EXCEPT ![p].ratesToInsert =
               [k \in 1..Len(@) |-> CrossReference(@[k])]]
  /\ pc' = [pc EXCEPT ![p] = "insertRates"]
  /\ UNCHANGED <<req, response, financeProviders, ratebookImports, providerRates>>

\* Mutant: the catch takes the whole sub-batch, error rows included, out of
\* successRows.
InsertFailedRollingBackBatch(l) ==
  [l EXCEPT !.errorRows = @ + Len(l.ratesToInsert),
            !.successRows = @ - (IF l.totalRows - l.i < BATCH_SIZE
                                 THEN l.totalRows - l.i ELSE BATCH_SIZE),
            !.errors = Append(@, [msg |-> "Batch insert error", row |-> l.i])]

\* Mutant: the catch forgets to take the sub-batch out of successRows.
InsertFailedNoRollback(l) ==
  [l EXCEPT !.errorRows = @ + Len(l.ratesToInsert),
            !.errors = Append(@, [msg |-> "Batch insert error", row |-> l.i])]

\* The locals after the catch of a failed bulk insert (lines 427-431).
InsertFailed(l) ==
  [l EXCEPT !.errorRows = @ + Len(l.ratesToInsert),
            !.successRows = @ - Len(l.ratesToInsert),
            !.errors = Append(@, [msg |-> "Batch insert error", row |-> l.i])]

\* Whether storage holds providerRates.importId to an existing row of
\* ratebookImports.  The tables' definition (lib/db/schema) is not among the
\* sources; the specification puts the datastore schema out of scope and
\* gives the ownership of rates to the batch's deleter, so storage enforces
\* no reference.
ReferenceEnforced == FALSE

\* Bulk insert batch (lines 424-432): the insert goes through or throws.
InsertRates(p) ==
  /\ pc[p] = "insertRates"
  /\ \E ok \in BOOLEAN :
       IF ok /\ (ReferenceEnforced
                  => \E b \in ratebookImports : b.id = loc[p].importId)
       THEN /\ providerRates' =
                 providerRates \cup
                   {loc[p].ratesToInsert[k] : k \in 1..Len(loc[p].ratesToInsert)}
            /\ UNCHANGED loc
       ELSE /\ loc' = [loc EXCEPT ![p] = InsertFailed(@)]
            /\ UNCHANGED providerRates
  /\ pc' = [pc EXCEPT ![p] = "updateProgress"]
  /\ UNCHANGED <<req, response, financeProviders, ratebookImports>>

\* Update progress (lines 434-443), then the next turn of the loop.
UpdateProgress(p) ==
  /\ pc[p] = "updateProgress"
  /\ ratebookImports' =
       UpdateImport(ratebookImports, loc[p].importId,
         [totalRows |-> loc[p].totalRows,
          successRows |-> loc[p].successRows,
          errorRows |-> loc[p].errorRows,
          uniqueCapCodes |-> Cardinality(loc[p].capCodes)])
  /\ LET l == [loc[p] EXCEPT !.i = @ + BATCH_SIZE]
         e == EnterBatch(l, req[p])
     IN /\ loc' = [loc EXCEPT ![p] = e.locals]
        /\ pc' = [pc EXCEPT ![p] = e.next]
  /\ UNCHANGED <<req, response, financeProviders, providerRates>>

\* Mutant: the catch of the scoring statement counts an error row.
ExecuteScoresCountingFailure(p) ==
  /\ pc[p] = "executeScores"
  /\ \E ok \in BOOLEAN :
       loc' = [loc EXCEPT ![p] =
                 IF ok THEN @
                 ELSE [@ EXCEPT !.errorRows = @ + 1,
                                !.errors = Append(@, [msg |-> "Score calculation failed",
                                                      row |-> 0])]]
  /\ pc' = [pc EXCEPT ![p] = "updateFinal"]
  /\ UNCHANGED <<req, response, financeProviders, ratebookImports, providerRates>>

\* Calculate scores (lines 446-466): the statement goes through (it writes
\* score columns only) or it throws and the catch records it.
ExecuteScores(p) ==
  /\ pc[p] = "executeScores"
  /\ \E ok \in BOOLEAN :
       loc' = [loc EXCEPT ![p].errors =
                 IF ok THEN @
                 ELSE Append(@, [msg |-> "Score calculation failed", row |-> 0])]
  /\ pc' = [pc EXCEPT ![p] = "updateFinal"]
  /\ UNCHANGED <<req, response, financeProviders, ratebookImports, providerRates>>

\* Mutant: >= in the place of >.
FinalStatusAtLeastHalf(errorRows, totalRows) ==
  IF 2 * errorRows >= totalRows THEN "failed" ELSE "completed"

\* const finalStatus = errorRows > totalRows / 2 ? "failed" : "completed"
FinalStatus(errorRows, totalRows) ==
  IF 2 * errorRows > totalRows THEN "failed" ELSE "completed"

\* Mutant: the outcome carries every error.
OutcomeUncapped(l) ==
  [success |-> FinalStatus(l.errorRows, l.totalRows) = "completed",
   importId |-> l.importId, totalRows |-> l.totalRows,
   successRows |-> l.successRows, errorRows |-> l.errorRows,
   uniqueCapCodes |-> Cardinality(l.capCodes),
   errors |-> l.errors]

\* The outcome returned at lines 483-492.
Outcome(l) ==
  [success |-> FinalStatus(l.errorRows, l.totalRows) = "completed",
   importId |-> l.importId, totalRows |-> l.totalRows,
   successRows |-> l.successRows, errorRows |-> l.errorRows,
   uniqueCapCodes |-> Cardinality(l.capCodes),
   errors |-> Slice(l.errors, OUTCOME_ERRORS_CAP)]

\* Mutant: a failed import gives the latest flag up when it is finalized.
UpdateFinalDroppingLatest(p) ==
  /\ pc[p] = "updateFinal"
  /\ ratebookImports' =
       UpdateImport(ratebookImports, loc[p].importId,
         [status |-> FinalStatus(loc[p].errorRows, loc[p].totalRows),
          isLatest |->
                                 FinalStatus(loc[p].errorRows, loc[p].totalRows)
                                   = "completed",
          totalRows |-> loc[p].totalRows,
          successRows |-> loc[p].successRows,
          errorRows |-> loc[p].errorRows,
          uniqueCapCodes |-> Cardinality(loc[p].capCodes),
          errorLog |-> Slice(loc[p].errors, ERROR_LOG_CAP)])
  /\ AnswerResult(p, Outcome(loc[p]))
  /\ UNCHANGED <<financeProviders, providerRates>>

\* Finalize import (lines 468-493).
UpdateFinal(p) ==
  /\ pc[p] = "updateFinal"
  /\ ratebookImports' =
       UpdateImport(ratebookImports, loc[p].importId,
         [status |-> FinalStatus(loc[p].errorRows, loc[p].totalRows),
          totalRows |-> loc[p].totalRows,
          successRows |-> loc[p].successRows,
          errorRows |-> loc[p].errorRows,
          uniqueCapCodes |-> Cardinality(loc[p].capCodes),
          errorLog |-> Slice(loc[p].errors, ERROR_LOG_CAP)])
  /\ AnswerResult(p, Outcome(loc[p]))
  /\ UNCHANGED <<financeProviders, providerRates>>

\* The datastore calls whose rejection nothing catches: the call ends there
\* and the error middleware answers 500.
UncaughtCalls ==
  {"selectExisting", "selectProvider", "insertProvider", "updateLatest",
   "insertImport", "updateParseFailed", "selectVehicles", "updateProgress",
   "updateFinal"}

DbThrows(p) ==
  /\ pc[p] \in UncaughtCalls
  /\ Answer(p, 500, << >>, NoResult)
  /\ UNCHANGED <<financeProviders, ratebookImports, providerRates>>

Next ==
  \E p \in Calls :
    \/ ImportWithMappings(p)
    \/ SelectExistingImport(p)
    \/ SelectProvider(p)
    \/ InsertProvider(p)
    \/ UpdateLatest(p)
    \/ InsertImport(p)
    \/ UpdateParseFailed(p)
    \/ SelectVehicles(p)
    \/ InsertRates(p)
    \/ UpdateProgress(p)
    \/ ExecuteScores(p)
    \/ UpdateFinal(p)
    \/ DbThrows(p)

Spec == Init /\ [][Next]_vars

\* -------------------------------------------------------- long imports
\* One import of a file with many error rows, followed on its own from the
\* route to its answer.
ImportLongFile(p) ==
  /\ \A q \in Calls : pc[q] = "idle"
  /\ \A q \in Calls : q >= p
  /\ \E r \in LongRequests :
       /\ ~BodyIncomplete(r)
       /\ missingRequired(r.columnMappings) = << >>
       /\ req' = [req EXCEPT ![p] = r]
  /\ pc' = [pc EXCEPT ![p] = "selectExisting"]
  /\ UNCHANGED <<loc, response, financeProviders, ratebookImports, providerRates>>

NextLong ==
  \E p \in Calls :
    \/ DbThrows(p)
    \/ ImportLongFile(p)
    \/ SelectExistingImport(p)
    \/ SelectProvider(p)
    \/ InsertProvider(p)
    \/ UpdateLatest(p)
    \/ InsertImport(p)
    \/ UpdateParseFailed(p)
    \/ SelectVehicles(p)
    \/ InsertRates(p)
    \/ UpdateProgress(p)
    \/ ExecuteScores(p)
    \/ UpdateFinal(p)

SpecLong == Init /\ [][NextLong]_vars

\* A call that can take a step eventually takes one: the datastore answers
\* every call, with a result or with an error, and Node runs every
\* continuation that is ready.  Followed for one import on its own.
LiveSpec == SpecLong /\ WF_vars(NextLong)

\* ------------------------------------------------------ imports in turn
\* Imports sent one after another: a request is sent when the calls before it
\* have been answered.
ImportInTurn(p) ==
  /\ \A q \in Calls : q < p => pc[q] = "done"
  /\ ImportWithMappings(p)

NextInTurn ==
  \E p \in Calls :
    \/ ImportInTurn(p)
    \/ SelectExistingImport(p)
    \/ SelectProvider(p)
    \/ InsertProvider(p)
    \/ UpdateLatest(p)
    \/ InsertImport(p)
    \/ UpdateParseFailed(p)
    \/ SelectVehicles(p)
    \/ InsertRates(p)
    \/ UpdateProgress(p)
    \/ ExecuteScores(p)
    \/ UpdateFinal(p)
    \/ DbThrows(p)

SpecInTurn == Init /\ [][NextInTurn]_vars

\* --------------------------------------------------------- named files
\* Imports of the same bytes under several file names, providers and contract
\* types.
ImportNamedFile(p) ==
  /\ pc[p] = "idle"
  /\ \A q \in Calls : q < p => pc[q] # "idle"
  /\ \E r \in NamedRequests :
       /\ ~BodyIncomplete(r)
       /\ missingRequired(r.columnMappings) = << >>
       /\ req' = [req EXCEPT ![p] = r]
  /\ pc' = [pc EXCEPT ![p] = "selectExisting"]
  /\ UNCHANGED <<loc, response, financeProviders, ratebookImports, providerRates>>

NextNames ==
  \E p \in Calls :
    \/ ImportNamedFile(p)
    \/ SelectExistingImport(p)
    \/ SelectProvider(p)
    \/ InsertProvider(p)
    \/ UpdateLatest(p)
    \/ InsertImport(p)
    \/ UpdateParseFailed(p)
    \/ SelectVehicles(p)
    \/ InsertRates(p)
    \/ UpdateProgress(p)
    \/ ExecuteScores(p)
    \/ UpdateFinal(p)
    \/ DbThrows(p)

SpecNames == Init /\ [][NextNames]_vars

\* ------------------------------------------------ DELETE /:importId
\* The administrative route that deletes an import and its rates
\* (routes/admin/ratebooks.ts).  A call is either an import or a deletion; the
\* id to delete is kept in the importId local.

\* const importId = req.params.importId
DeleteRatebook(p) ==
  /\ pc[p] = "idle"
  /\ \A q \in Calls : q < p => pc[q] # "idle"
  /\ \E id \in Calls :
       loc' = [loc EXCEPT ![p] = [NoLocals EXCEPT !.importId = id]]
  /\ pc' = [pc EXCEPT ![p] = "deleteRates"]
  /\ UNCHANGED <<req, response, financeProviders, ratebookImports, providerRates>>

\* Delete rates first.
DeleteRates(p) ==
  /\ pc[p] = "deleteRates"
  /\ providerRates' = {r \in providerRates : r.importId # loc[p].importId}
  /\ pc' = [pc EXCEPT ![p] = "deleteImport"]
  /\ UNCHANGED <<req, loc, response, financeProviders, ratebookImports>>

\* Delete import; 404 when no row was deleted.
DeleteImport(p) ==
  /\ pc[p] = "deleteImport"
  /\ IF ReferenceEnforced /\ \E r \in providerRates : r.importId = loc[p].importId
     THEN /\ Answer(p, 500, << >>, NoResult)
          /\ UNCHANGED ratebookImports
     ELSE /\ ratebookImports' = {b \in ratebookImports : b.id # loc[p].importId}
          /\ IF \E b \in ratebookImports : b.id = loc[p].importId
             THEN Answer(p, 200, << >>,
                         [NoResult EXCEPT !.success = TRUE,
                                          !.importId = loc[p].importId])
             ELSE Answer(p, 404, << >>, NoResult)
  /\ UNCHANGED <<financeProviders, providerRates>>

\* A rejected statement of the deletion is caught by nothing.
DeleteThrows(p) ==
  /\ pc[p] \in {"deleteRates", "deleteImport"}
  /\ Answer(p, 500, << >>, NoResult)
  /\ UNCHANGED <<financeProviders, ratebookImports, providerRates>>

\* Imports and deletions together.
NextWithDelete ==
  \/ Next
  \/ \E p \in Calls :
       \/ DeleteRatebook(p)
       \/ DeleteRates(p)
       \/ DeleteImport(p)
       \/ DeleteThrows(p)

SpecWithDelete == Init /\ [][NextWithDelete]_vars

\* ------------------------------------------------ table shape detection
\* lib/imports/matrix-ratebook.ts and lib/imports/extract-headers.ts are pure
\* functions of a table: the rows of the first worksheet, each a sequence of
\* cells, each cell a text.  They are evaluated in a specification of their
\* own, in which req holds the table, pc the function applied to it ("idle"
\* before) and response the value returned.

\* String.prototype.includes
Includes(text, pattern) ==
  \E i \in 0..(Len(text) - Len(pattern)) :
     SubSeq(text, i + 1, i + Len(pattern)) = pattern

\* Array.prototype.join(" ")
RECURSIVE Join(_)
Join(cells) ==
  IF cells = << >> THEN << >>
  ELSE IF Len(cells) = 1 THEN cells[1]
  ELSE cells[1] \o <<" ">> \o Join(Tail(cells))

IsDigit(c) == \E k \in 1..Len(DigitChars) : DigitChars[k] = c

\* \w of a regular expression
IsWordChar(c) ==
  \/ IsDigit(c)
  \/ c = "_"
  \/ \E k \in 1..Len(LowerLetters) : LowerLetters[k] = c \/ UpperLetters[k] = c

\* TERM_PATTERN.test(s), TERM_PATTERN = /\b\d{1,2}\+\d{2}\b/
TERM_PATTERN(s) ==
  \E i \in 1..Len(s) : \E d \in 1..2 :
     /\ i + d + 2 <= Len(s)
     /\ \A k \in i..(i + d - 1) : IsDigit(s[k])
     /\ s[i + d] = "+"
     /\ IsDigit(s[i + d + 1]) /\ IsDigit(s[i + d + 2])
     /\ (i = 1 \/ ~IsWordChar(s[i - 1]))
     /\ (i + d + 2 = Len(s) \/ ~IsWordChar(s[i + d + 3]))

MATRIX_LABELS ==
  << <<"B", "A", "S", "E", " ", "R", "E", "N", "T", "A", "L", "S">>,
     <<"B", "C", "H", " ", "R", "A", "T", "E", "S">>,
     <<"A", "D", "D", " ", "V", "A", "T", " ", "F", "O", "R", " ", "P", "C", "H">>,
     <<"P", "C", "H">>,
     <<"B", "C", "H">> >>

\* rawRows.slice(0, 30)
MATRIX_SCAN_ROWS == 30

\* String(value ?? "").trim(); a cell beyond the end of its row is undefined.
normalize(value) == Trim(value)

\* row[i] of a JavaScript array (0-based), "" standing for undefined where the
\* value only ever reaches normalize.
At(row, i) == IF i >= 0 /\ i < Len(row) THEN row[i + 1] ELSE << >>

\* cellText.filter((c) => TERM_PATTERN.test(c))
termMatches(row) ==
  SelectSeq([k \in 1..Len(row) |-> normalize(row[k])], TERM_PATTERN)

\* MATRIX_LABELS.some((label) => rowUpper.includes(label))
HasMatrixLabel(row) ==
  LET rowUpper == ToUpperCase(Join([k \in 1..Len(row) |-> normalize(row[k])]))
  IN \E k \in 1..Len(MATRIX_LABELS) : Includes(rowUpper, MATRIX_LABELS[k])

\* Mutant: the first term row and the first label row are kept.
RECURSIVE DetectLoopFirstWins(_, _, _, _)
DetectLoopFirstWins(scanRows, i, termRowIndex, labelRowIndex) ==
  IF i >= Len(scanRows)
  THEN [termRowIndex |-> termRowIndex, labelRowIndex |-> labelRowIndex]
  ELSE DetectLoopFirstWins(scanRows, i + 1,
                  IF Len(termMatches(scanRows[i + 1])) >= 3 /\ termRowIndex = NULL
                  THEN Num(i) ELSE termRowIndex,
                  IF HasMatrixLabel(scanRows[i + 1]) /\ labelRowIndex = NULL
                  THEN Num(i) ELSE labelRowIndex)

\* The loop of detectMatrixRatebook from row i on (lines 44-57).
RECURSIVE DetectLoop(_, _, _, _)
DetectLoop(scanRows, i, termRowIndex, labelRowIndex) ==
  IF i >= Len(scanRows)
  THEN [termRowIndex |-> termRowIndex, labelRowIndex |-> labelRowIndex]
  ELSE DetectLoop(scanRows, i + 1,
                  IF Len(termMatches(scanRows[i + 1])) >= 3 THEN Num(i)
                  ELSE termRowIndex,
                  IF HasMatrixLabel(scanRows[i + 1]) THEN Num(i)
                  ELSE labelRowIndex)

detectMatrixRatebook(rows) ==
  LET scanRows == SubSeq(rows, 1, IF Len(rows) < MATRIX_SCAN_ROWS THEN Len(rows)
                                  ELSE MATRIX_SCAN_ROWS)
      found == DetectLoop(scanRows, 0, NULL, NULL)
  IN [isMatrix |-> found.termRowIndex # NULL /\ found.labelRowIndex # NULL,
      termRowIndex |-> found.termRowIndex,
      labelRowIndex |-> found.labelRowIndex]

\* The headers every matrix result starts with (lines 116-126).
MileageKey == <<"M", "i", "l", "e", "a", "g", "e">>

MATRIX_HEADERS ==
  << <<"M", "a", "k", "e">>,
     <<"M", "o", "d", "e", "l">>,
     <<"V", "a", "r", "i", "a", "n", "t">>,
     <<"C", "A", "P", " ", "C", "o", "d", "e">>,
     <<"C", "A", "P", " ", "I", "D">>,
     <<"B", "L", "P">>,
     <<"O", "T", "R">>,
     <<"V", "e", "h", "i", "c", "l", "e", " ", "D", "e", "s", "c", "r", "i", "p",
       "t", "i", "o", "n">>,
     MileageKey >>

\* mileageRows.slice(0, 5)
SAMPLE_ROWS == 5

\* rows.slice(termRowIndex + 1).filter((row) => normalize(row[0]) !== "")
findMileageRows(rows, termRowIndex) ==
  SelectSeq(SubSeq(rows, termRowIndex + 2, Len(rows)),
            LAMBDA row : normalize(At(row, 0)) # << >>)

\* termRow.findIndex((c) => normalize(c) === term), 0-based, -1 when absent
findIndex(termRow, term) ==
  LET hits == {k \in 1..Len(termRow) : normalize(termRow[k]) = term}
  IN IF hits = {} THEN -1 ELSE (CHOOSE k \in hits : \A j \in hits : k <= j) - 1

\* The object built for one mileage row (lines 138-148): Mileage, then one
\* property per term header; a repeated header is written again with the
\* same value.
RowObject(row, termRow, termHeaders) ==
  [key \in {MileageKey} \cup {termHeaders[k] : k \in 1..Len(termHeaders)} |->
     IF key = MileageKey THEN normalize(At(row, 0))
     ELSE normalize(At(row, findIndex(termRow, key)))]

\* parseMatrixToFlat without its meta (CAP code, CAP ID, BLP, OTR), which no
\* header and no sample row depends on.
parseMatrixToFlat(rows) ==
  LET detection == detectMatrixRatebook(rows)
      termRowIndex == IF detection.termRowIndex = NULL THEN 0
                      ELSE detection.termRowIndex.v
      termRow == IF termRowIndex < Len(rows) THEN rows[termRowIndex + 1] ELSE << >>
      termHeaders == termMatches(termRow)
      mileageRows == findMileageRows(rows, termRowIndex)
      sample == SubSeq(mileageRows, 1, IF Len(mileageRows) < SAMPLE_ROWS
                                       THEN Len(mileageRows) ELSE SAMPLE_ROWS)
  IN [headers |-> MATRIX_HEADERS \o termHeaders,
      sampleRows |-> [j \in 1..Len(sample) |-> RowObject(sample[j], termRow, termHeaders)]]

\* Math.min(15, rawData.length) and Math.min(10, rawData.length) of
\* findHeaderRowIndex.
HEADER_SCAN_ROWS == 15
KEYWORD_SCAN_ROWS == 10

HEADER_KEYWORDS ==
  << <<"M", "A", "N", "U", "F", "A", "C", "T", "U", "R", "E", "R">>,
     <<"C", "A", "P", " ", "C", "O", "D", "E">>,
     <<"C", "A", "P", "_", "C", "O", "D", "E">>,
     <<"C", "A", "P", "C", "O", "D", "E">>,
     <<"M", "I", "L", "E", "A", "G", "E">>,
     <<"R", "E", "N", "T", "A", "L">>,
     <<"M", "O", "D", "E", "L">>,
     <<"M", "A", "K", "E">>,
     <<"V", "A", "R", "I", "A", "N", "T">>,
     <<"D", "E", "R", "I", "V", "A", "T", "I", "V", "E">> >>

\* normalizeCell of extract-headers.ts: "" for null and undefined, else
\* String(value).trim()
normalizeCell(value) == Trim(value)

\* row.filter((cell) => normalizeCell(cell) !== "").length
countFilledCells(row) ==
  Len(SelectSeq(row, LAMBDA cell : normalizeCell(cell) # << >>))

\* HEADER_KEYWORDS.some((keyword) => rowStr.includes(keyword))
HasHeaderKeyword(row) ==
  LET rowStr == ToUpperCase(Join([k \in 1..Len(row) |-> normalizeCell(row[k])]))
  IN \E k \in 1..Len(HEADER_KEYWORDS) : Includes(rowStr, HEADER_KEYWORDS[k])

Min(a, b) == IF a < b THEN a ELSE b

\* Mutant: >= in the place of >, the last of the fullest rows wins.
RECURSIVE FilledLoopLastWins(_, _, _, _)
FilledLoopLastWins(rawData, i, maxColumns, headerRowIndex) ==
  IF i >= Min(HEADER_SCAN_ROWS, Len(rawData))
  THEN [maxColumns |-> maxColumns, headerRowIndex |-> headerRowIndex]
  ELSE IF countFilledCells(rawData[i + 1]) >= maxColumns
  THEN FilledLoopLastWins(rawData, i + 1, countFilledCells(rawData[i + 1]), i)
  ELSE FilledLoopLastWins(rawData, i + 1, maxColumns, headerRowIndex)

\* The first loop of findHeaderRowIndex from row i on (lines 37-44).
RECURSIVE FilledLoop(_, _, _, _)
FilledLoop(rawData, i, maxColumns, headerRowIndex) ==
  IF i >= Min(HEADER_SCAN_ROWS, Len(rawData))
  THEN [maxColumns |-> maxColumns, headerRowIndex |-> headerRowIndex]
  ELSE IF countFilledCells(rawData[i + 1]) > maxColumns
  THEN FilledLoop(rawData, i + 1, countFilledCells(rawData[i + 1]), i)
  ELSE FilledLoop(rawData, i + 1, maxColumns, headerRowIndex)

\* The second loop from row i on (lines 50-56); -1 when it returns nothing.
RECURSIVE KeywordLoop(_, _)
KeywordLoop(rawData, i) ==
  IF i >= Min(KEYWORD_SCAN_ROWS, Len(rawData)) THEN -1
  ELSE IF HasHeaderKeyword(rawData[i + 1]) THEN i
  ELSE KeywordLoop(rawData, i + 1)

findHeaderRowIndex(rawData) ==
  LET fullest == FilledLoop(rawData, 0, 0, 0)
  IN IF fullest.maxColumns >= 5 THEN fullest.headerRowIndex
     ELSE IF KeywordLoop(rawData, 0) # -1 THEN KeywordLoop(rawData, 0)
     ELSE fullest.headerRowIndex

\* `Column ${index + 1}`
ColumnName(index) == <<"C", "o", "l", "u", "m", "n", " ">> \o NatToText(index + 1)

\* The flat branch of extractHeadersFromXlsx (lines 73-81, 116).  Its sample
\* rows are read from the worksheet a second time by the xlsx library and are
\* not part of the value modelled.
FlatHeaders(rawData) ==
  IF rawData = << >>
  THEN [headers |-> << >>, headerRowIndex |-> 0, isMatrix |-> FALSE]
  ELSE LET headerRowIndex == findHeaderRowIndex(rawData)
           headerRow == rawData[headerRowIndex + 1]
       IN [headers |-> [k \in 1..Len(headerRow) |->
                          IF normalizeCell(headerRow[k]) # << >>
                          THEN normalizeCell(headerRow[k]) ELSE ColumnName(k - 1)],
           headerRowIndex |-> headerRowIndex,
           isMatrix |-> FALSE]

\* The matrix branch (lines 62-71).
MatrixHeaders(rawData) ==
  LET matrixDetection == detectMatrixRatebook(rawData)
      matrix == parseMatrixToFlat(rawData)
  IN [headers |-> matrix.headers,
      sampleRows |-> matrix.sampleRows,
      headerRowIndex |-> IF matrixDetection.termRowIndex = NULL THEN 0
                         ELSE matrixDetection.termRowIndex.v,
      isMatrix |-> TRUE]

\* Mutant: a header row of 5 or more filled cells is taken before the matrix
\* shape is looked for.
extractHeadersFlatFirst(rawData) ==
  IF rawData # << >> /\ FilledLoop(rawData, 0, 0, 0).maxColumns >= 5
  THEN FlatHeaders(rawData)
  ELSE IF detectMatrixRatebook(rawData).isMatrix THEN MatrixHeaders(rawData)
  ELSE FlatHeaders(rawData)

\* extractHeadersFromXlsx, applied to the rows of the first worksheet.
extractHeadersFromXlsx(rawData) ==
  IF detectMatrixRatebook(rawData).isMatrix THEN MatrixHeaders(rawData)
  ELSE FlatHeaders(rawData)

\* The tables the functions are applied to: some blank rows, up to
\* MaxBodyRows rows of the catalogue below, and up to MaxTail mileage rows.
MaxBodyRows == 3
MaxTail == 6

BlankRow == << << >>, << >> >>

RowTitle == << <<"L", "e", "x">> >>

RowLabel ==
  << <<"k", "i", "a">>, << >>, <<"b", "c", "h", " ", "r", "a", "t", "e", "s">> >>

RowTerms ==
  << << >>, <<"1", "+", "2", "3">>, <<" ", "3", "+", "3", "5", " ">>,
     <<"1", "+", "4", "7">> >>

\* Two term codes, a text that only looks like one, and a header keyword.
RowTwoTerms ==
  << <<"M", "a", "k", "e">>, <<"1", "+", "2", "3">>, <<"3", "+", "3", "5">>,
     <<"1", "2", "3", "+", "4", "5">> >>

RowHeader ==
  << <<"T", "E", "R", "M">>, <<"M", "I", "L", "E", "S">>,
     <<"c", "a", "p", " ", "c", "o", "d", "e">>, <<"M", "A", "K", "E">>,
     <<"M", "O", "D", "E", "L">> >>

RowMile == << <<" ", "5", "k", " ">>, <<"#", "1">>, <<"#", "2">>, <<"#", "3">> >>

RowNote == << << >>, <<"n">> >>

RowCatalogue ==
  {RowTitle, RowLabel, RowTerms, RowTwoTerms, RowHeader, RowMile, RowNote}

Repeat(row, n) == [k \in 1..n |-> row]

\* Blank rows in front put a row just inside or just outside a scan window.
PadSizes ==
  {0} \cup {w - d : w \in {KEYWORD_SCAN_ROWS, HEADER_SCAN_ROWS, MATRIX_SCAN_ROWS},
                    d \in 0..2}

Tables ==
  LET bodies == UNION {[1..n -> RowCatalogue] : n \in 0..MaxBodyRows}
  IN {Repeat(BlankRow, pad) \o body : pad \in PadSizes, body \in bodies}
     \cup {body \o Repeat(RowMile, tail) : body \in bodies, tail \in 1..MaxTail}

InitTables ==
  /\ req \in Tables
  /\ pc = "idle"
  /\ response = NULL
  /\ loc = << >>
  /\ financeProviders = {} /\ ratebookImports = {} /\ providerRates = {}

\* The function returns: its name goes to pc, its value to response.
Return(function, value) ==
  /\ pc = "idle"
  /\ pc' = function
  /\ response' = value
  /\ UNCHANGED <<req, loc, financeProviders, ratebookImports, providerRates>>

CallDetectMatrixRatebook == Return("detectMatrixRatebook", detectMatrixRatebook(req))

CallParseMatrixToFlat == Return("parseMatrixToFlat", parseMatrixToFlat(req))

CallFindHeaderRowIndex == Return("findHeaderRowIndex", findHeaderRowIndex(req))

CallExtractHeadersFromXlsx ==
  Return("extractHeadersFromXlsx", extractHeadersFromXlsx(req))

NextTables ==
  \/ CallDetectMatrixRatebook
  \/ CallParseMatrixToFlat
  \/ CallFindHeaderRowIndex
  \/ CallExtractHeadersFromXlsx

SpecTables == InitTables /\ [][NextTables]_vars

\* ------------------------------------------------ column mapping resolver
\* lib/ai/column-analyzer.ts.  A header is a text; req holds the headers.

\* The keys of DATABASE_FIELDS in declaration order, with their required flag.
DATABASE_FIELDS ==
  << [key |-> "capCode", required |-> TRUE],
     [key |-> "manufacturer", required |-> TRUE],
     [key |-> "model", required |-> TRUE],
     [key |-> "variant", required |-> FALSE],
     [key |-> "modelYear", required |-> FALSE],
     [key |-> "term", required |-> TRUE],
     [key |-> "annualMileage", required |-> TRUE],
     [key |-> "totalRental", required |-> TRUE],
     [key |-> "leaseRental", required |-> FALSE],
     [key |-> "serviceRental", required |-> FALSE],
     [key |-> "p11d", required |-> FALSE],
     [key |-> "co2Gkm", required |-> FALSE],
     [key |-> "fuelType", required |-> FALSE],
     [key |-> "transmission", required |-> FALSE],
     [key |-> "bodyStyle", required |-> FALSE],
     [key |-> "excessMileagePpm", required |-> FALSE],
     [key |-> "wholeLifeCost", required |-> FALSE],
     [key |-> "otrPrice", required |-> FALSE],
     [key |-> "basicListPrice", required |-> FALSE],
     [key |-> "insuranceGroup", required |-> FALSE],
     [key |-> "mpgCombined", required |-> FALSE],
     [key |-> "wltpEvRange", required |-> FALSE],
     [key |-> "euroRating", required |-> FALSE] >>

\* A regular expression of fallbackAnalysis: literal characters and ".?" (an
\* optional character), anchored at the start (^) and at the end ($) or not;
\* all carry the i flag.
Re(start, body, end) == [start |-> start, body |-> body, end |-> end]

\* Whether re.body from element k on matches text from position j on.
RECURSIVE MatchFrom(_, _, _, _)
MatchFrom(re, text, k, j) ==
  IF k > Len(re.body) THEN (~re.end \/ j = Len(text) + 1)
  ELSE IF re.body[k] = ".?"
  THEN \/ MatchFrom(re, text, k + 1, j)
       \/ j <= Len(text) /\ MatchFrom(re, text, k + 1, j + 1)
  ELSE /\ j <= Len(text)
       /\ UpperChar(text[j]) = UpperChar(re.body[k])
       /\ MatchFrom(re, text, k + 1, j + 1)

\* regex.test(header)
RegexTest(re, text) ==
  \E j \in 1..(IF re.start THEN 1 ELSE Len(text) + 1) : MatchFrom(re, text, 1, j)

\* The patterns of fallbackAnalysis (lines 193-217), in the order of the
\* object literal.
patterns ==
  << [field |-> "capCode",
      regexes |-> << Re(FALSE, <<"c", "a", "p", ".?", "c", "o", "d", "e">>, FALSE),
                     Re(FALSE, <<"c", "a", "p", ".?", "i", "d">>, FALSE),
                     Re(FALSE, <<"c", "a", "p", "c", "o", "d", "e">>, FALSE) >>],
     [field |-> "manufacturer",
      regexes |-> << Re(FALSE, <<"m", "a", "n", "u", "f", "a", "c", "t", "u", "r", "e", "r">>, FALSE),
                     Re(TRUE, <<"m", "a", "k", "e">>, TRUE),
                     Re(TRUE, <<"m", "f", "r">>, TRUE) >>],
     [field |-> "model",
      regexes |-> << Re(TRUE, <<"m", "o", "d", "e", "l">>, TRUE),
                     Re(FALSE, <<"m", "o", "d", "e", "l", ".?", "n", "a", "m", "e">>, FALSE) >>],
     [field |-> "variant",
      regexes |-> << Re(FALSE, <<"v", "a", "r", "i", "a", "n", "t">>, FALSE),
                     Re(FALSE, <<"d", "e", "r", "i", "v", "a", "t", "i", "v", "e">>, FALSE),
                     Re(TRUE, <<"t", "r", "i", "m">>, TRUE) >>],
     [field |-> "modelYear",
      regexes |-> << Re(FALSE, <<"m", "o", "d", "e", "l", ".?", "y", "e", "a", "r">>, FALSE),
                     Re(TRUE, <<"y", "e", "a", "r">>, TRUE) >>],
     [field |-> "term",
      regexes |-> << Re(TRUE, <<"t", "e", "r", "m">>, TRUE),
                     Re(FALSE, <<"c", "o", "n", "t", "r", "a", "c", "t", ".?", "t", "e", "r", "m">>, FALSE),
                     Re(FALSE, <<"m", "o", "n", "t", "h", "s">>, FALSE) >>],
     [field |-> "annualMileage",
      regexes |-> << Re(FALSE, <<"m", "i", "l", "e", "a", "g", "e">>, FALSE),
                     Re(FALSE, <<"a", "n", "n", "u", "a", "l", ".?", "m", "i", "l", "e", "s">>, FALSE) >>],
     [field |-> "totalRental",
      regexes |-> << Re(TRUE, <<"r", "e", "n", "t", "a", "l">>, TRUE),
                     Re(FALSE, <<"m", "o", "n", "t", "h", "l", "y", ".?", "r", "e", "n", "t", "a", "l">>, FALSE),
                     Re(FALSE, <<"n", "e", "t", ".?", "r", "e", "n", "t", "a", "l", ".?", "w", "m">>, FALSE),
                     Re(FALSE, <<"n", "e", "t", ".?", "r", "e", "n", "t", "a", "l">>, TRUE),
                     Re(FALSE, <<"t", "o", "t", "a", "l", ".?", "r", "e", "n", "t", "a", "l">>, FALSE) >>],
     [field |-> "leaseRental",
      regexes |-> << Re(FALSE, <<"l", "e", "a", "s", "e", ".?", "r", "e", "n", "t", "a", "l">>, FALSE),
                     Re(FALSE, <<"f", "i", "n", "a", "n", "c", "e", ".?", "r", "e", "n", "t", "a", "l">>, FALSE),
                     Re(FALSE, <<"n", "e", "t", ".?", "r", "e", "n", "t", "a", "l", ".?", "c", "m">>, FALSE),
                     Re(FALSE, <<"c", "o", "n", "t", "r", "a", "c", "t", ".?", "r", "e", "n", "t", "a", "l">>, FALSE) >>],
     [field |-> "serviceRental",
      regexes |-> << Re(FALSE, <<"s", "e", "r", "v", "i", "c", "e", ".?", "r", "e", "n", "t", "a", "l">>, FALSE),
                     Re(FALSE, <<"m", "a", "i", "n", "t", "e", "n", "a", "n", "c", "e">>, FALSE) >>],
     [field |-> "p11d",
      regexes |-> << Re(FALSE, <<"p", "1", "1", "d">>, FALSE) >>],
     [field |-> "co2Gkm",
      regexes |-> << Re(FALSE, <<"c", "o", "2">>, FALSE),
                     Re(FALSE, <<"c", "o", "2", ".?", "g">>, FALSE) >>],
     [field |-> "fuelType",
      regexes |-> << Re(FALSE, <<"f", "u", "e", "l", ".?", "t", "y", "p", "e">>, FALSE),
                     Re(TRUE, <<"f", "u", "e", "l">>, TRUE) >>],
     [field |-> "transmission",
      regexes |-> << Re(FALSE, <<"t", "r", "a", "n", "s", "m", "i", "s", "s", "i", "o", "n">>, FALSE),
                     Re(TRUE, <<"t", "r", "a", "n", "s">>, TRUE) >>],
     [field |-> "bodyStyle",
      regexes |-> << Re(FALSE, <<"b", "o", "d", "y", ".?", "s", "t", "y", "l", "e">>, FALSE),
                     Re(TRUE, <<"b", "o", "d", "y">>, TRUE) >>],
     [field |-> "excessMileagePpm",
      regexes |-> << Re(FALSE, <<"e", "x", "c", "e", "s", "s", ".?", "m", "i", "l", "e", "a", "g", "e">>, FALSE),
                     Re(FALSE, <<"e", "m", "c">>, FALSE) >>],
     [field |-> "wholeLifeCost",
      regexes |-> << Re(FALSE, <<"w", "h", "o", "l", "e", ".?", "l", "i", "f", "e">>, FALSE),
                     Re(FALSE, <<"w", "l", "c">>, FALSE) >>],
     [field |-> "otrPrice",
      regexes |-> << Re(TRUE, <<"o", "t", "r">>, TRUE),
                     Re(TRUE, <<"o", "t", "r", "p">>, TRUE),
                     Re(FALSE, <<"o", "n", ".?", "t", "h", "e", ".?", "r", "o", "a", "d">>, FALSE),
                     Re(FALSE, <<"o", "t", "r", ".?", "p", "r", "i", "c", "e">>, FALSE) >>],
     [field |-> "basicListPrice",
      regexes |-> << Re(FALSE, <<"b", "a", "s", "i", "c", ".?", "p", "r", "i", "c", "e">>, FALSE),
                     Re(FALSE, <<"b", "a", "s", "i", "c", ".?", "l", "i", "s", "t">>, FALSE),
                     Re(FALSE, <<"l", "i", "s", "t", ".?", "p", "r", "i", "c", "e">>, FALSE),
                     Re(FALSE, <<"b", "a", "s", "e", ".?", "p", "r", "i", "c", "e">>, FALSE) >>],
     [field |-> "insuranceGroup",
      regexes |-> << Re(FALSE, <<"i", "n", "s", "u", "r", "a", "n", "c", "e", ".?", "g", "r", "o", "u", "p">>, FALSE) >>],
     [field |-> "mpgCombined",
      regexes |-> << Re(FALSE, <<"m", "p", "g">>, FALSE),
                     Re(FALSE, <<"f", "u", "e", "l", ".?", "e", "c", "o">>, FALSE) >>],
     [field |-> "wltpEvRange",
      regexes |-> << Re(FALSE, <<"e", "v", ".?", "r", "a", "n", "g", "e">>, FALSE),
                     Re(FALSE, <<"e", "l", "e", "c", "t", "r", "i", "c", ".?", "r", "a", "n", "g", "e">>, FALSE),
                     Re(FALSE, <<"w", "l", "t", "p">>, FALSE) >>],
     [field |-> "euroRating",
      regexes |-> << Re(FALSE, <<"e", "u", "r", "o">>, FALSE) >>] >>

\* Mutant: the last field with a matching pattern is taken.
LastMatchingField(header) ==
  LET hits == {k \in 1..Len(patterns) :
                 \E r \in 1..Len(patterns[k].regexes) :
                    RegexTest(patterns[k].regexes[r], header)}
  IN IF hits = {} THEN NoField
     ELSE patterns[CHOOSE k \in hits : \A j \in hits : j <= k].field

\* The loops of lines 220-231: the first field, in the order of patterns,
\* one of whose regexes matches the header; null when there is none.
FirstMatchingField(header) ==
  LET hits == {k \in 1..Len(patterns) :
                 \E r \in 1..Len(patterns[k].regexes) :
                    RegexTest(patterns[k].regexes[r], header)}
  IN IF hits = {} THEN NoField
     ELSE patterns[CHOOSE k \in hits : \A j \in hits : k <= j].field

\* One entry of the mappings of fallbackAnalysis.
FallbackMapping(header) ==
  IF FirstMatchingField(header) # NoField
  THEN [sourceColumn |-> header, targetField |-> FirstMatchingField(header),
        confidence |-> 60, reasoning |-> "Pattern match (fallback)"]
  ELSE [sourceColumn |-> header, targetField |-> NoField,
        confidence |-> 0, reasoning |-> "No pattern match found"]

\* headers.filter((h) => !mappedColumns.includes(h))
unmappedColumns(headers, mappings) ==
  SelectSeq(headers,
            LAMBDA h : ~\E k \in 1..Len(mappings) :
                          mappings[k].targetField # NoField /\ mappings[k].sourceColumn = h)

\* The keys of the required fields that no mapping targets.
missingRequiredFields(mappings) ==
  LET missing == SelectSeq(DATABASE_FIELDS,
                    LAMBDA f : f.required
                               /\ ~\E k \in 1..Len(mappings) : mappings[k].targetField = f.key)
  IN [k \in 1..Len(missing) |-> missing[k].key]

fallbackAnalysis(headers) ==
  LET mappings == [k \in 1..Len(headers) |-> FallbackMapping(headers[k])]
  IN [mappings |-> mappings,
      unmappedColumns |-> unmappedColumns(headers, mappings),
      missingRequiredFields |-> missingRequiredFields(mappings),
      suggestedProviderName |-> "Unknown Provider"]

\* The headers the resolver is applied to: up to MaxHeaders of the catalogue.
MaxHeaders == 3

H_CAP_CODE == <<"C", "A", "P", "_", "C", "O", "D", "E">>
H_Net_Rental == <<"N", "e", "t", "_", "R", "e", "n", "t", "a", "l">>
H_ANNUAL_MILEAGE == <<"A", "N", "N", "U", "A", "L", "_", "M", "I", "L", "E", "A", "G", "E">>
H_Make == <<"M", "a", "k", "e">>
H_Model_Year == <<"M", "o", "d", "e", "l", " ", "Y", "e", "a", "r">>
H_Excess_Mileage == <<"E", "x", "c", "e", "s", "s", " ", "M", "i", "l", "e", "a", "g", "e">>
H_Term == <<"T", "e", "r", "m">>
H_Notes == <<"N", "o", "t", "e", "s">>

HeaderCatalogue ==
  {H_CAP_CODE, H_Net_Rental, H_ANNUAL_MILEAGE, H_Make, H_Model_Year,
   H_Excess_Mileage, H_Term, H_Notes}

HeaderLists == UNION {[1..n -> HeaderCatalogue] : n \in 1..MaxHeaders}

\* m.targetField in DATABASE_FIELDS: true of the keys and of the property
\* names every object inherits.
InDatabaseFields(name) ==
  \/ \E k \in 1..Len(DATABASE_FIELDS) : DATABASE_FIELDS[k].key = name
  \/ name \in {"constructor", "toString", "valueOf", "hasOwnProperty"}

\* Validate and clean up mappings (lines 154-159).
ValidMapping(m) ==
  [sourceColumn |-> m.sourceColumn,
   targetField |-> IF m.targetField # NoField /\ InDatabaseFields(m.targetField)
                   THEN m.targetField ELSE NoField,
   confidence |-> Min(100, IF m.confidence > 0 THEN m.confidence ELSE 0),
   reasoning |-> m.reasoning]

\* The value returned at lines 175-180 for a reply that parsed.
AiAnalysis(headers, parsed) ==
  LET validMappings == [k \in 1..Len(parsed.mappings) |-> ValidMapping(parsed.mappings[k])]
  IN [mappings |-> validMappings,
      unmappedColumns |-> unmappedColumns(headers, validMappings),
      missingRequiredFields |-> missingRequiredFields(validMappings),
      suggestedProviderName |-> IF parsed.suggestedProviderName # ""
                                THEN parsed.suggestedProviderName
                                ELSE "Unknown Provider"]

\* What the suggestion service can do with a request: reject it (timeout,
\* network or authentication error), answer without content, with content
\* that is no JSON, with JSON that has no mappings array, or with mappings.
AiFailures == {"rejects", "noContent", "notJson", "noMappings"}

AiReplies(headers) ==
  {[kind |-> k, parsed |-> NULL] : k \in AiFailures}
  \cup {[kind |-> "mappings",
         parsed |-> [mappings |-> [k \in 1..Len(headers) |->
                                     [sourceColumn |-> headers[k], targetField |-> f,
                                      confidence |-> 150, reasoning |-> "ai"]],
                     suggestedProviderName |-> ""]] :
          f \in {"capCode", "bogus", "toString", NoField}}

InitAnalyzer ==
  /\ req \in HeaderLists
  /\ loc \in [apiKey : BOOLEAN, reply : {"none"}]
  /\ pc = "load"
  /\ response = NULL
  /\ financeProviders = {} /\ ratebookImports = {} /\ providerRates = {}

\* The module is evaluated: new OpenAI({ apiKey: process.env.OPENAI_API_KEY })
\* at lines 3-5, outside any function and any try.  Without a key the
\* constructor of the openai package throws, and the module, the function with
\* it, is never there; a client library that accepted the missing key would
\* fail at the first request instead.
LoadModule ==
  /\ pc = "load"
  /\ \E throws \in BOOLEAN :
       pc' = IF ~loc.apiKey /\ throws THEN "loadFailed" ELSE "idle"
  /\ UNCHANGED <<req, loc, response, financeProviders, ratebookImports, providerRates>>

\* analyzeColumnHeaders up to the request to the service (lines 66-130).
AnalyzeColumnHeaders ==
  /\ pc = "idle"
  /\ pc' = "createCompletion"
  /\ UNCHANGED <<req, loc, response, financeProviders, ratebookImports, providerRates>>

\* The service answers or fails; lines 143-186.
CreateCompletion ==
  /\ pc = "createCompletion"
  /\ \E reply \in AiReplies(req) :
       /\ ~loc.apiKey => reply.kind = "rejects"
       /\ loc' = [loc EXCEPT !.reply = reply.kind]
       /\ response' = IF reply.kind \in AiFailures THEN fallbackAnalysis(req)
                      ELSE AiAnalysis(req, reply.parsed)
  /\ pc' = "done"
  /\ UNCHANGED <<req, financeProviders, ratebookImports, providerRates>>

\* fallbackAnalysis on its own.
CallFallbackAnalysis ==
  /\ pc = "idle"
  /\ pc' = "fallbackAnalysis"
  /\ response' = fallbackAnalysis(req)
  /\ UNCHANGED <<req, loc, financeProviders, ratebookImports, providerRates>>

NextAnalyzer ==
  \/ LoadModule
  \/ AnalyzeColumnHeaders
  \/ CreateCompletion
  \/ CallFallbackAnalysis

SpecAnalyzer == InitAnalyzer /\ [][NextAnalyzer]_vars

\* ------------------------------------------------------------------ money
\* generic-ratebook-importer.ts, toPence and its use for totalRental.
\*
\* A JavaScript number with a fractional part is kept as its value in
\* thousandths; the cells of this section carry at most three decimals.
Decimal(thousandths) == [t |-> "dec", v |-> thousandths]

NaN == [t |-> "nan"]

\* The characters /[,£\s]/g removes.
KeepsMoneyChar(c) == ~(c = "," \/ c = "£" \/ IsSpace(c))

StripMoney(s) == SelectSeq(s, KeepsMoneyChar)

DigitValue(c) == (CHOOSE k \in 1..Len(DigitChars) : DigitChars[k] = c) - 1

\* The length of the run of digits s starts with.
RECURSIVE DigitRun(_)
DigitRun(s) == IF s # << >> /\ IsDigit(Head(s)) THEN 1 + DigitRun(Tail(s)) ELSE 0

RECURSIVE TextToNat(_)
TextToNat(s) ==
  IF s = << >> THEN 0 ELSE TextToNat(SubSeq(s, 1, Len(s) - 1)) * 10 + DigitValue(s[Len(s)])

\* parseFloat: leading white space, a sign, the longest run of digits with at
\* most one point in it; NaN when that run holds no digit.  Whatever follows
\* is ignored.  (Exponents and Infinity are not among the cells of this model.)
parseFloat(s) ==
  LET t == TrimStart(s)
      signed == t # << >> /\ Head(t) \in {"-", "+"}
      negative == t # << >> /\ Head(t) = "-"
      body == IF signed THEN Tail(t) ELSE t
      n == DigitRun(body)
      hasPoint == Len(body) > n /\ body[n + 1] = "."
      rest == IF hasPoint THEN SubSeq(body, n + 2, Len(body)) ELSE << >>
      f == DigitRun(rest)
      digit(k) == IF k <= f THEN DigitValue(rest[k]) ELSE 0
      magnitude == TextToNat(SubSeq(body, 1, n)) * 1000
                     + digit(1) * 100 + digit(2) * 10 + digit(3)
  IN IF n = 0 /\ f = 0 THEN NaN
     ELSE Decimal(IF negative THEN -magnitude ELSE magnitude)

\* num * 100 in binary floating point, in tenths of a penny.  A value that is a
\* multiple of 1/8 is held exactly and so is its product; any other value is
\* held as the nearest double, and the product comes out a hair under (-1), at
\* (0) or a hair over (1) its decimal value: drift stands for whichever the
\* arithmetic gives, and every one of the three is allowed.
Times100(num, drift) ==
  [tenths |-> num.v, drift |-> IF num.v % 125 = 0 THEN 0 ELSE drift]

\* Mutant: Math.floor in the place of Math.round.
MathFloor(x) ==
  IF x.tenths % 10 = 0 /\ x.drift < 0 THEN (x.tenths \div 10) - 1 ELSE x.tenths \div 10

\* Math.round: the nearest integer, a half going up.
MathRound(x) ==
  LET up == (x.tenths + 5) \div 10
  IN IF x.tenths % 10 = 5 /\ x.drift < 0 THEN up - 1 ELSE up

toPence(value, drift) ==
  IF value = NULL \/ value = Str(<< >>) \/ value = Str(<<"0">>) THEN NULL
  ELSE LET num == IF value.t = "str" THEN parseFloat(StripMoney(value.v)) ELSE value
       IN IF num = NaN THEN NULL ELSE Num(MathRound(Times100(num, drift)))

\* const totalRental = toPence(extractValue(row, "totalRental", columnMappings)) || 0
TotalRental(value, drift) == Or(toPence(value, drift), Num(0))

\* The amounts of the source files: whole pounds of one to seven digits and
\* every number of pence, both signs.
Pounds == {0, 1, 12, 344, 1234, 12345, 1234567}

Amounts == [negative : BOOLEAN, pounds : Pounds, pence : 0..99]

PenceOf(a) ==
  LET p == a.pounds * 100 + a.pence IN IF a.negative THEN -p ELSE p

\* Digits with a comma before every group of three.
RECURSIVE Grouped(_)
Grouped(digits) ==
  IF Len(digits) <= 3 THEN digits
  ELSE Grouped(SubSeq(digits, 1, Len(digits) - 3)) \o <<",">>
         \o SubSeq(digits, Len(digits) - 2, Len(digits))

TwoDecimals(a) == <<".", DigitChars[(a.pence \div 10) + 1], DigitChars[(a.pence % 10) + 1]>>

\* The decimals as a spreadsheet's general format writes them: none of a whole
\* number, one when the second is 0.
FewestDecimals(a) ==
  IF a.pence = 0 THEN << >>
  ELSE IF a.pence % 10 = 0 THEN <<".", DigitChars[(a.pence \div 10) + 1]>>
  ELSE TwoDecimals(a)

Sign(a) == IF a.negative THEN <<"-">> ELSE << >>

\* The ways a file writes an amount: a number cell, or text with or without
\* the pound sign, thousands separators and surrounding blanks.
CellsOf(a) ==
  LET digits == NatToText(a.pounds)
  IN {Decimal(PenceOf(a) * 10),
      Str(Sign(a) \o digits \o TwoDecimals(a)),
      Str(Sign(a) \o digits \o FewestDecimals(a)),
      Str(Sign(a) \o Grouped(digits) \o TwoDecimals(a)),
      Str(Sign(a) \o <<"£">> \o digits \o TwoDecimals(a)),
      Str(Sign(a) \o <<"£">> \o Grouped(digits) \o TwoDecimals(a)),
      Str(<<" ">> \o Sign(a) \o <<"£", " ">> \o Grouped(digits) \o FewestDecimals(a) \o <<" ">>)}

InitMoney ==
  /\ \E a \in Amounts : \E c \in CellsOf(a) : \E d \in {-1, 0, 1} :
       req = [amount |-> a, cell |-> c, drift |-> d]
  /\ pc = "idle"
  /\ response = NULL
  /\ loc = << >>
  /\ financeProviders = {} /\ ratebookImports = {} /\ providerRates = {}

CallToPence == Return("toPence", toPence(req.cell, req.drift))

CallTotalRental == Return("totalRental", TotalRental(req.cell, req.drift))

NextMoney ==
  \/ CallToPence
  \/ CallTotalRental

SpecMoney == InitMoney /\ [][NextMoney]_vars

\* ------------------------------------------------------------ row fields
\* generic-ratebook-importer.ts, parseInt2 and the three required fields of a
\* row that have a default (lines 310-312).

\* String(value).replace(/,/g, "")
KeepsNoComma(c) == c # ","

\* Mutant: the separators are left in.
KeepCommas(s) == s

RemoveCommas(s) == SelectSeq(s, KeepsNoComma)

\* parseInt(s, 10): leading white space, a sign, the longest run of digits;
\* NaN when that run is empty.  Whatever follows is ignored.
parseInt10(s) ==
  LET t == TrimStart(s)
      signed == t # << >> /\ Head(t) \in {"-", "+"}
      negative == t # << >> /\ Head(t) = "-"
      body == IF signed THEN Tail(t) ELSE t
      n == DigitRun(body)
      magnitude == TextToNat(SubSeq(body, 1, n))
  IN IF n = 0 THEN NaN ELSE Num(IF negative THEN -magnitude ELSE magnitude)

\* Math.round of a number cell: a whole number is itself, a Decimal is rounded
\* to the nearest whole number, a half going up.
RoundCell(value) ==
  IF value.t = "num" THEN value
  ELSE Num(MathRound([tenths |-> value.v \div 100, drift |-> 0]))

parseInt2(value) ==
  IF value = NULL THEN NULL
  ELSE IF value.t # "str" THEN RoundCell(value)
  ELSE IF Trim(value.v) = << >> THEN NULL
  ELSE LET num == parseInt10(RemoveCommas(value.v))
       IN IF num = NaN THEN NULL ELSE num

DEFAULT_TERM == 36
DEFAULT_ANNUAL_MILEAGE == 10000

\* const term = parseInt2(extractValue(row, "term", columnMappings)) || 36
RowTerm(row, columnMappings) ==
  Or(parseInt2(extractValue(row, "term", columnMappings)), Num(DEFAULT_TERM))

\* const annualMileage = parseInt2(extractValue(row, "annualMileage", ...)) || 10000
RowAnnualMileage(row, columnMappings) ==
  Or(parseInt2(extractValue(row, "annualMileage", columnMappings)),
     Num(DEFAULT_ANNUAL_MILEAGE))

\* const totalRental = toPence(extractValue(row, "totalRental", columnMappings)) || 0
RowTotalRental(row, columnMappings, drift) ==
  TotalRental(extractValue(row, "totalRental", columnMappings), drift)

\* Lines 296-312 for one row: whether the row is turned into an error row, and
\* the three fields of the rate when it is not.
RowFields(row, columnMappings, drift) ==
  IF RowCapCode(row, columnMappings) = << >>
  THEN [rejected |-> TRUE, term |-> NULL, annualMileage |-> NULL, totalRental |-> NULL]
  ELSE [rejected |-> FALSE,
        term |-> RowTerm(row, columnMappings),
        annualMileage |-> RowAnnualMileage(row, columnMappings),
        totalRental |-> RowTotalRental(row, columnMappings, drift)]

\* A column the row does not have.
Absent == [t |-> "absent"]

TermCells ==
  {Absent, Str(<< >>), Str(<<" ">>), Str(<<"3", "6">>), Str(<<"4", "8", " ", "m">>),
   Str(<<"n", "/", "a">>), Str(<<"0">>), Num(0), Num(24), Decimal(47500),
   Str(<<"-", "1">>)}

MileageCells ==
  {Absent, Str(<<"8", "0", "0", "0">>), Str(<<"1", "5", ",", "0", "0", "0">>),
   Str(<<"t", "b", "c">>), Num(0), Num(5000)}

RentalCells ==
  {Absent, Str(<< >>), Str(<<"0">>), Str(<<"£", "3", "4", "4", ".", "9", "0">>),
   Str(<<"P", "O", "A">>), Decimal(0), Decimal(292070)}

CapCells == {Str(<<"A", "1">>), Str(<<" ">>)}

\* The row with the given cells under the columns of FullMapping.
RowOf(cap, term, miles, rental) ==
  LET cells == [CAP_CODE |-> cap, TERM |-> term, MILES |-> miles, RENTAL |-> rental]
  IN [c \in {d \in DOMAIN cells : cells[d] # Absent} |-> cells[c]]

FieldRows ==
  {RowOf(cap, term, miles, rental) :
     cap \in CapCells, term \in TermCells, miles \in MileageCells, rental \in RentalCells}

InitFields ==
  /\ \E row \in FieldRows : \E d \in {-1, 0, 1} : req = [row |-> row, drift |-> d]
  /\ pc = "idle"
  /\ response = NULL
  /\ loc = << >>
  /\ financeProviders = {} /\ ratebookImports = {} /\ providerRates = {}

CallParseInt2 == Return("parseInt2", parseInt2(extractValue(req.row, "term", FullMapping)))

CallRowFields == Return("rowFields", RowFields(req.row, FullMapping, req.drift))

NextFields ==
  \/ CallParseInt2
  \/ CallRowFields

SpecFields == InitFields /\ [][NextFields]_vars

\* ------------------------------------------------------- cross-reference
\* One row taken through the building of its rate (lines 306-309, 332-339)
\* and then through the vehicle cross-reference (lines 404-421): loc keeps the
\* rate as built, response the rate as cross-referenced.
XrefCapCells == {Str(<<"A", "1">>), Str(<<" ", "B", "2">>), Str(<<"C", "3">>)}

XrefMakeCells ==
  {Absent, Str(<< >>), Str(<<" ">>), Str(<<"b", "w">>), Str(UNKNOWN_UPPER),
   Str(<<"u", "n", "k", "n", "o", "w", "n">>)}

XrefModelCells ==
  {Absent, Str(<< >>), Str(<<" ">>), Str(<<"X">>), Str(UNKNOWN_UPPER), Str(UNKNOWN_MIXED)}

XrefVariantCells == {Absent, Str(<< >>), Str(<<"S", "E">>), Str(UNKNOWN_UPPER)}

XrefRowOf(cap, make, model, variant) ==
  LET cells == [CAP_CODE |-> cap, MAKE |-> make, MODEL |-> model, VARIANT |-> variant]
  IN [c \in {d \in DOMAIN cells : cells[d] # Absent} |-> cells[c]]

XrefRows ==
  {XrefRowOf(cap, make, model, variant) :
     cap \in XrefCapCells, make \in XrefMakeCells, model \in XrefModelCells,
     variant \in XrefVariantCells}

XrefOptions == Request("lex", "CH", "row", FullMapping)

InitXref ==
  /\ req \in [row : XrefRows]
  /\ pc = "idle"
  /\ response = NULL
  /\ loc = << >>
  /\ financeProviders = {} /\ ratebookImports = {} /\ providerRates = {}

\* The rate is built from the row.
BuildRowRate ==
  Return("buildRate",
         BuildRate(req.row, RowCapCode(req.row, FullMapping), 1, 1, XrefOptions))

\* The vehicle lookup answers and the rate is completed from it.
CrossReferenceRate ==
  /\ pc = "buildRate"
  /\ pc' = "crossReference"
  /\ loc' = response
  /\ response' = CrossReference(response)
  /\ UNCHANGED <<req, financeProviders, ratebookImports, providerRates>>

NextXref ==
  \/ BuildRowRate
  \/ CrossReferenceRate

SpecXref == InitXref /\ [][NextXref]_vars

\* ---------------------------------------------------- matrix metadata
\* matrix-ratebook.ts, the meta of parseMatrixToFlat (lines 130-135) with
\* findMetaValue and findCapCode.
IsLetter(c) == \E k \in 1..Len(LowerLetters) : LowerLetters[k] = c \/ UpperLetters[k] = c

IsAlnum(c) == IsLetter(c) \/ IsDigit(c)

\* CAP_CODE_PATTERN.test(s),
\* CAP_CODE_PATTERN = /[A-Z]{3,6}\d{2,4}[A-Z0-9]{4,}\s*[A-Z0-9]*\s*\d*\s*[A-Z]?/i:
\* everything after the third group may match nothing, so the test asks for
\* 3 to 6 letters, 2 to 4 digits and 4 more letters or digits in a row.
CAP_CODE_PATTERN(s) ==
  \E i \in 1..Len(s) : \E a \in 3..6 : \E b \in 2..4 :
     /\ i + a + b + 3 <= Len(s)
     /\ \A k \in i..(i + a - 1) : IsLetter(s[k])
     /\ \A k \in (i + a)..(i + a + b - 1) : IsDigit(s[k])
     /\ \A k \in (i + a + b)..(i + a + b + 3) : IsAlnum(s[k])

\* value.replace(/\s+/g, " ")
RECURSIVE CollapseSpaces(_)
CollapseSpaces(s) ==
  IF s = << >> THEN << >>
  ELSE IF IsSpace(Head(s))
  THEN <<" ">> \o CollapseSpaces(TrimStart(s))
  ELSE <<Head(s)>> \o CollapseSpaces(Tail(s))

\* rows.slice(0, 15) of findMetaValue and findCapCode
META_SCAN_ROWS == 15

\* The first non-empty normalized cell of row after position i (0-based),
\* null when there is none.
RECURSIVE NextCandidate(_, _)
NextCandidate(row, j) ==
  IF j >= Len(row) THEN NULL
  ELSE IF normalize(At(row, j)) # << >> THEN Str(normalize(At(row, j)))
  ELSE NextCandidate(row, j + 1)

\* The loop over i of findMetaValue in one row: the candidate returned, or
\* null when the row returns nothing.
RECURSIVE MetaInRow(_, _, _)
MetaInRow(row, upperLabel, i) ==
  IF i >= Len(row) - 1 THEN NULL
  ELSE IF ToUpperCase(normalize(At(row, i))) = upperLabel
          /\ NextCandidate(row, i + 1) # NULL
  THEN NextCandidate(row, i + 1)
  ELSE MetaInRow(row, upperLabel, i + 1)

RECURSIVE MetaLoop(_, _, _)
MetaLoop(rows, upperLabel, r) ==
  IF r > Min(META_SCAN_ROWS, Len(rows)) THEN NULL
  ELSE IF MetaInRow(rows[r], upperLabel, 0) # NULL
  THEN MetaInRow(rows[r], upperLabel, 0)
  ELSE MetaLoop(rows, upperLabel, r + 1)

findMetaValue(rows, label) == MetaLoop(rows, ToUpperCase(label), 1)

\* The loop over the cells of one row of findCapCode.
RECURSIVE CapCodeInRow(_, _)
CapCodeInRow(row, i) ==
  IF i >= Len(row) THEN NULL
  ELSE IF CAP_CODE_PATTERN(normalize(At(row, i)))
  THEN Str(Trim(CollapseSpaces(normalize(At(row, i)))))
  ELSE CapCodeInRow(row, i + 1)

RECURSIVE CapCodeLoop(_, _)
CapCodeLoop(rows, r) ==
  IF r > Min(META_SCAN_ROWS, Len(rows)) THEN NULL
  ELSE IF CapCodeInRow(rows[r], 0) # NULL THEN CapCodeInRow(rows[r], 0)
  ELSE CapCodeLoop(rows, r + 1)

findCapCode(rows) == CapCodeLoop(rows, 1)

L_CAP_CODE == <<"C", "A", "P", " ", "C", "O", "D", "E">>
L_CAP_ID == <<"C", "A", "P", " ", "I", "D">>
L_BLP == <<"B", "L", "P">>
L_OTR == <<"O", "T", "R">>

\* const meta = { capCode: findCapCode(rawRows), capId: ..., blp: ..., otr: ... }
parseMatrixMeta(rows) ==
  [capCode |-> findCapCode(rows),
   capId |-> findMetaValue(rows, L_CAP_ID),
   blp |-> findMetaValue(rows, L_BLP),
   otr |-> findMetaValue(rows, L_OTR)]

MaxMetaRows == 3

\* A CAP code, and a derivative text that has the shape of one.
T_CapCode == <<"H", "Y", "T", "U", "1", "6", "T", "2", "E", "5", " ", " ", "4">>
T_CapCodeShaped == <<"B", "M", "S", "E", "2", "0", "E", "V", "O", "5">>
T_ShortCode == <<"K", "I", "1", "2">>

\* The label with a CAP code next to it, after an empty cell.
RowCapCode1 == << <<"C", "a", "p", " ", "C", "o", "d", "e", " ">>, << >>, T_CapCodeShaped >>
\* The label with a code of another shape next to it.
RowCapCode2 == << L_CAP_CODE, T_ShortCode >>
\* The label with nothing after it.
RowCapCode3 == << L_CAP_CODE, << >> >>
\* The CAP ID, the list price and the on-the-road price of the test workbook.
RowCapId ==
  << L_CAP_ID, << >>, <<"1", "0", "8", "3", "2", "1">>, L_OTR, <<"2", "5", "0", "0", "0">> >>
\* A description row that holds a CAP code without a label.
RowDescription == << <<"H", "y", "u", "n", "d", "a", "i">>, T_CapCode >>

MetaRowCatalogue ==
  {RowCapCode1, RowCapCode2, RowCapCode3, RowCapId, RowDescription, RowTerms}

MetaPadSizes == {0} \cup {META_SCAN_ROWS - d : d \in 0..2}

MetaTables ==
  {Repeat(BlankRow, pad) \o body :
     pad \in MetaPadSizes,
     body \in UNION {[1..n -> MetaRowCatalogue] : n \in 0..MaxMetaRows}}

InitMeta ==
  /\ req \in MetaTables
  /\ pc = "idle"
  /\ response = NULL
  /\ loc = << >>
  /\ financeProviders = {} /\ ratebookImports = {} /\ providerRates = {}

CallFindCapCode == Return("findCapCode", findCapCode(req))

CallFindMetaValue == Return("findMetaValue", findMetaValue(req, L_CAP_ID))

CallParseMatrixMeta == Return("parseMatrixMeta", parseMatrixMeta(req))

NextMeta ==
  \/ CallFindCapCode
  \/ CallFindMetaValue
  \/ CallParseMatrixMeta

SpecMeta == InitMeta /\ [][NextMeta]_vars

\* -------------------------------------------------- thousands separators
\* toPence and parseInt2 applied to a text and to the same text written with
\* thousands separators.
\* Digit strings: the numbers a ratebook holds as mileages, terms and prices,
\* some of them with zeros in front.
DigitStrings ==
  {NatToText(n) : n \in 0..1200}
  \cup {NatToText(n) : n \in {8000, 10000, 45000, 100000, 999999, 1000000, 1234567}}
  \cup {<<"0">> \o NatToText(n) : n \in {0, 7, 36, 450, 8000}}
  \cup {<<"0", "0", "0">> \o NatToText(n) : n \in {0, 5}}

\* Texts that are no number.
GarbageTexts ==
  {<<"n", "/", "a">>, <<"P", "O", "A">>, <<"-">>, <<",">>, <<".">>, <<"£">>,
   <<"t", "b", "c", " ", "1", "2">>, <<"-", "-", "5">>}

InitSeparators ==
  /\ \E s \in DigitStrings \cup GarbageTexts : \E d \in {-1, 0, 1} :
       req = [text |-> s, drift |-> d]
  /\ pc = "idle"
  /\ response = NULL
  /\ loc = << >>
  /\ financeProviders = {} /\ ratebookImports = {} /\ providerRates = {}

ToPenceBothForms ==
  Return("toPence", [plain |-> toPence(Str(req.text), req.drift),
                     separated |-> toPence(Str(Grouped(req.text)), req.drift)])

ParseInt2BothForms ==
  Return("parseInt2", [plain |-> parseInt2(Str(req.text)),
                       separated |-> parseInt2(Str(Grouped(req.text)))])

NextSeparators ==
  \/ ToPenceBothForms
  \/ ParseInt2BothForms

SpecSeparators == InitSeparators /\ [][NextSeparators]_vars

\* ================================================================= claims
\* The ImportBatch row of a call (its id is the call's number).
HasBatch(p) == \E b \in ratebookImports : b.id = p
BatchOf(p) == CHOOSE b \in ratebookImports : b.id = p
RatesOf(p) == {r \in providerRates : r.importId = p}
LatestOf(providerCode, contractType) ==
  {b \in ratebookImports :
     b.providerCode = providerCode /\ b.contractType = contractType /\ b.isLatest}

\* The call ended with the outcome of an import that created batch p.
Imported(p) == pc[p] = "done" /\ response[p].result.importId = p
\* The call ended with the duplicate outcome.
IsDuplicateAnswer(r) ==
  /\ r.code = 400
  /\ r.result.errors # << >>
  /\ r.result.errors[1].msg = "Duplicate file detected"
\* The tables, as one value.
Store == <<financeProviders, ratebookImports, providerRates>>

\* C1: in every reachable state at most one ImportBatch has isLatest = true
\* for a (providerCode, contractType), also when imports for that pair run
\* concurrently.  (Stated as claimed; the importer's demote and insert are two
\* separate datastore calls and two calls interleave them.)
C1_AtMostOneLatest ==
  \A b1, b2 \in ratebookImports :
    (b1.providerCode = b2.providerCode /\ b1.contractType = b2.contractType
       /\ b1.isLatest /\ b2.isLatest) => b1.id = b2.id

\* C2: when a call reaches its duplicate check while an import of the same
\* bytes under the same providerCode has run to completion, the check ends the
\* call with success = false and the "Duplicate file" message (or the lookup
\* itself fails and the call ends with a 500), and the step creates no
\* ImportBatch and no RateRecord: the tables are as before.
C2_SecondImportRejected ==
  [][\A p, q \in Calls :
       ( /\ p # q
         /\ pc[p] = "selectExisting" /\ pc'[p] # "selectExisting"
         /\ Imported(q) /\ HasBatch(q)
         /\ BatchOf(q).providerCode = req[p].providerCode
         /\ BatchOf(q).fileHash = generateFileHash(req[p].fileContent) )
       => ( /\ pc'[p] = "done"
            /\ response'[p].code = 500 \/ IsDuplicateAnswer(response'[p])
            /\ ~response'[p].result.success
            /\ ratebookImports' = ratebookImports
            /\ providerRates' = providerRates )]_vars

\* C2 witness: one call has imported the file (its batch holds RateRecords and
\* is final), the other call was answered "duplicate", and the only batch is
\* the first call's.
C2_Witness ==
  \E p, q \in Calls :
    /\ Imported(q) /\ HasBatch(q) /\ BatchOf(q).status = "completed"
    /\ RatesOf(q) # {}
    /\ pc[p] = "done" /\ IsDuplicateAnswer(response[p])
    /\ ~HasBatch(p) /\ RatesOf(p) = {}

\* C3: under any interleaving of calls that carry the same (providerCode,
\* content hash), at most one ImportBatch is created for that pair and only
\* that batch receives RateRecords.  (Stated as claimed; the duplicate check
\* is a read followed, several datastore calls later, by the insert.)
C3_OneBatchPerHash ==
  \A b1, b2 \in ratebookImports :
    (b1.providerCode = b2.providerCode /\ b1.fileHash = b2.fileHash)
      => b1.id = b2.id

\* C4: the step that answers "duplicate" leaves the whole store unchanged (no
\* provider entry, no demotion, no ImportBatch, no RateRecord), its outcome has
\* importId empty and all four counters 0, and the call takes no further
\* step: a finished call never moves again and never owns a batch or a rate.
C4_DuplicateLeavesStore ==
  [][\A p \in Calls :
       /\ (pc[p] # "done" /\ pc'[p] = "done" /\ IsDuplicateAnswer(response'[p]))
            => ( /\ Store' = Store
                 /\ response'[p].result.importId = NoId
                 /\ response'[p].result.totalRows = 0
                 /\ response'[p].result.successRows = 0
                 /\ response'[p].result.errorRows = 0
                 /\ response'[p].result.uniqueCapCodes = 0
                 /\ ~(\E b \in ratebookImports' : b.id = p)
                 /\ ~(\E r \in providerRates' : r.importId = p) )
       /\ (pc[p] = "done" /\ IsDuplicateAnswer(response[p]))
            => ( /\ pc'[p] = "done" /\ response'[p] = response[p]
                 /\ ~(\E b \in ratebookImports' : b.id = p)
                 /\ ~(\E r \in providerRates' : r.importId = p) )]_vars

\* C4 witness: a call was answered "duplicate" while the batch it duplicates
\* is still the latest of its provider and contract type.
C4_Witness ==
  \E p, q \in Calls :
    /\ pc[p] = "done" /\ IsDuplicateAnswer(response[p])
    /\ HasBatch(q) /\ BatchOf(q).isLatest
    /\ BatchOf(q).providerCode = "lex" /\ BatchOf(q).contractType = "CH"
    /\ Cardinality(ratebookImports) = 1

\* The required canonical fields that no entry of a mapping targets.
Untargeted(columnMappings) ==
  {f \in {"capCode", "manufacturer", "model", "term", "annualMileage", "totalRental"} :
     \A k \in 1..Len(columnMappings) : columnMappings[k].field # f}

\* C5: a request whose column mapping leaves a required canonical field
\* untargeted is answered 400 with the list of exactly the missing fields in
\* the step that receives it, with the whole store unchanged, and the call
\* never owns an ImportBatch or a RateRecord.
C5_MissingFieldsBlockImport ==
  [][\A p \in Calls :
       /\ ( /\ pc[p] = "idle" /\ pc'[p] # "idle"
            /\ req'[p].fileContent # ""
            /\ Untargeted(req'[p].columnMappings) # {} )
            => ( /\ pc'[p] = "done"
                 /\ response'[p].code = 400
                 /\ {response'[p].missing[k] : k \in 1..Len(response'[p].missing)}
                      = Untargeted(req'[p].columnMappings)
                 /\ Store' = Store )
       /\ (req'[p] # NoRequest /\ Untargeted(req'[p].columnMappings) # {})
            => ( /\ pc'[p] = "done"
                 /\ ~(\E b \in ratebookImports' : b.id = p)
                 /\ ~(\E r \in providerRates' : r.importId = p) )]_vars

\* C5 witness: a request that maps neither term nor totalRental was refused
\* with those two fields listed, while another call's batch is in the store.
C5_Witness ==
  \E p, q \in Calls :
    /\ pc[p] = "done" /\ req[p].columnMappings = PartialMapping
    /\ response[p].code = 400
    /\ response[p].missing = <<"term", "totalRental">>
    /\ ~HasBatch(p) /\ HasBatch(q) /\ BatchOf(q).isLatest

\* The file of a batch, read back from its hash.
FileOf(b) == ParseFile(b.fileHash[2])

\* C6: when the file cannot be parsed or parses to no rows, the import fails:
\* success = false, totalRows = successRows = 0, no RateRecord, and the batch
\* is left with status 'failed'.  (Stated as claimed; a file that parses to no
\* rows goes through the loop, scoring and finalization.)
C6_StructuralFailure ==
  \A p \in Calls :
    (Imported(p) /\ HasBatch(p)
       /\ (FileOf(BatchOf(p)).throws \/ FileOf(BatchOf(p)).records = << >>))
      => ( /\ ~response[p].result.success
           /\ response[p].result.totalRows = 0
           /\ response[p].result.successRows = 0
           /\ RatesOf(p) = {}
           /\ BatchOf(p).status = "failed" )

\* The outcome of the catch of the parse.
IsParseFailure(r) ==
  r.result.errors # << >> /\ r.result.errors[1].msg = "File parse error"

\* C7: once an import is finalized, its batch has status 'failed' exactly when
\* errorRows > totalRows / 2 and 'completed' otherwise (errorRows = totalRows / 2
\* is 'completed'), and the returned success flag is true exactly when the
\* status is 'completed'.
C7_FinalStatus ==
  \A p \in Calls :
    (Imported(p) /\ HasBatch(p) /\ ~IsParseFailure(response[p]))
      => LET b == BatchOf(p)
             r == response[p].result
         IN /\ b.errorRows = r.errorRows /\ b.totalRows = r.totalRows
            /\ b.status \in {"failed", "completed"}
            /\ (b.status = "failed") <=> (2 * r.errorRows > r.totalRows)
            /\ r.success <=> (b.status = "completed")

\* C7 witness: an import was finalized with exactly half of its rows in error
\* and is 'completed'.
C7_Witness ==
  \E p \in Calls :
    /\ Imported(p) /\ HasBatch(p) /\ ~IsParseFailure(response[p])
    /\ response[p].result.totalRows > 0
    /\ 2 * response[p].result.errorRows = response[p].result.totalRows
    /\ BatchOf(p).status = "completed" /\ response[p].result.success

\* Call q takes its "mark previous imports as not latest" step for the
\* provider and contract type of batch b, which is not its own.
DemotesKeyOf(q, b) ==
  /\ q # b.id
  /\ pc[q] = "updateLatest" /\ pc'[q] = "insertImport"
  /\ req[q].providerCode = b.providerCode
  /\ req[q].contractType = b.contractType

\* C8: finalization never changes isLatest.  No step changes the flag of a
\* batch except the demotion step of another import for the same provider and
\* contract type, which leaves no batch of that pair latest; a batch is created
\* latest; so a finalized batch, completed or failed, is latest and the batch
\* that was latest before it is not, unless another import for the same pair
\* took its demotion step in between.
C8_FinalizeKeepsLatest ==
  [][/\ \A b \in ratebookImports : \A c \in ratebookImports' :
          (b.id = c.id /\ b.isLatest # c.isLatest)
            => (b.isLatest /\ \E q \in Calls : DemotesKeyOf(q, b))
     /\ \A p \in Calls :
          /\ (pc[p] = "updateFinal" /\ pc'[p] = "done")
               => \A b \in ratebookImports : \E c \in ratebookImports' :
                     c.id = b.id /\ c.isLatest = b.isLatest
          /\ (pc[p] = "updateLatest" /\ pc'[p] = "insertImport")
               => LatestOf(req[p].providerCode, req[p].contractType)' = {}
          /\ (pc[p] = "insertImport" /\ pc'[p] \notin {"insertImport", "done"})
               => \E c \in ratebookImports' : c.id = p /\ c.isLatest]_vars

\* C8 witness: the second of two imports for lex/CH was finalized 'failed'; it
\* is the latest batch and the first, finalized 'completed', no longer is.
C8_Witness ==
  \E p, q \in Calls :
    /\ Imported(p) /\ HasBatch(p) /\ ~IsParseFailure(response[p])
    /\ Imported(q) /\ HasBatch(q)
    /\ BatchOf(p).providerCode = BatchOf(q).providerCode
    /\ BatchOf(p).contractType = BatchOf(q).contractType
    /\ BatchOf(p).status = "failed" /\ BatchOf(p).isLatest
    /\ BatchOf(q).status = "completed" /\ ~BatchOf(q).isLatest

\* A row whose CAP code cell is absent, null or only white space.
CapCodeMissing(row) ==
  \/ "CAP_CODE" \notin DOMAIN row
  \/ row.CAP_CODE.t = "null"
  \/ /\ row.CAP_CODE.t = "str"
     /\ \A k \in 1..Len(row.CAP_CODE.v) : row.CAP_CODE.v[k] = " "

\* Call p takes a step that runs the row loop over the sub-batch at loc'[p].i.
EntersSubBatch(p) ==
  /\ pc[p] \in {"insertImport", "updateProgress"}
  /\ pc'[p] \in {"selectVehicles", "updateProgress"}
  /\ pc[p] = "updateProgress" => loc'[p].i # loc[p].i

\* C9: in the row loop, every row whose CAP code is missing or blank adds one
\* to errorRows and one message naming the row, yields no RateRecord and no
\* entry of the CAP code set, and the rows after it are still processed; no
\* persisted RateRecord has an empty CAP code.
C9_MissingCapCodeIsErrorRow ==
  [][/\ \A p \in Calls :
          (EntersSubBatch(p) /\ req[p].columnMappings = FullMapping)
            => LET rows == SubBatch(ParseFile(req[p].fileContent).records, loc'[p].i)
                   bad == {k \in 1..Len(rows) : CapCodeMissing(rows[k])}
                   old == Len(loc[p].errors)
                   new == loc'[p].errors
                   rates == loc'[p].ratesToInsert
               IN /\ loc'[p].errorRows = loc[p].errorRows + Cardinality(bad)
                  /\ Len(new) = old + Cardinality(bad)
                  /\ \A k \in bad :
                       \E j \in (old + 1)..Len(new) :
                          new[j] = [msg |-> "Missing CAP Code",
                                    row |-> loc'[p].i + k + 1]
                  /\ {rates[j].id[2] : j \in 1..Len(rates)}
                       = {loc'[p].i + k : k \in (1..Len(rows)) \ bad}
                  /\ Len(rates) = Len(rows) - Cardinality(bad)
                  /\ loc'[p].capCodes
                       = loc[p].capCodes \cup {rates[j].capCode : j \in 1..Len(rates)}
                  /\ << >> \notin loc'[p].capCodes
     /\ \A r \in providerRates' :
          r.capCode # << >> /\ Head(r.capCode) # " "]_vars

\* C9 witness: a sub-batch with a blank CAP code was looped over; the row is
\* in the error list and the other row of the sub-batch is a rate to insert.
C9_Witness ==
  \E p \in Calls :
    /\ pc[p] = "selectVehicles"
    /\ loc[p].errorRows >= 1
    /\ loc[p].ratesToInsert # << >>
    /\ \E k \in 1..Len(loc[p].errors) : loc[p].errors[k].msg = "Missing CAP Code"
    /\ \E k \in 1..Len(SubBatch(ParseFile(req[p].fileContent).records, loc[p].i)) :
         CapCodeMissing(SubBatch(ParseFile(req[p].fileContent).records, loc[p].i)[k])

\* Call p takes the step of a bulk insert that fails.
BulkInsertFails(p) ==
  /\ pc[p] = "insertRates" /\ pc'[p] = "updateProgress"
  /\ providerRates' = providerRates

\* C10: when the bulk insert of a sub-batch fails, the rows that had been
\* counted as successes in that sub-batch are all counted in errorRows and none
\* in successRows (measured from the counters persisted before the sub-batch),
\* one 'Batch insert error' message is recorded, and the import goes on with
\* the following sub-batch.
C10_FailedBulkInsert ==
  [][\A p \in Calls :
       /\ (BulkInsertFails(p) /\ HasBatch(p))
            => /\ loc'[p].successRows = BatchOf(p).successRows
               /\ loc'[p].errorRows - loc[p].errorRows = Len(loc[p].ratesToInsert)
               /\ loc'[p].successRows + loc'[p].errorRows
                    = BatchOf(p).successRows + BatchOf(p).errorRows
                        + Len(SubBatch(ParseFile(req[p].fileContent).records, loc[p].i))
               /\ loc'[p].errors
                    = Append(loc[p].errors, [msg |-> "Batch insert error", row |-> loc[p].i])
               /\ ~(\E r \in providerRates' : r.importId = p /\ r.id[2] >= loc[p].i)
       /\ ( /\ pc[p] = "updateProgress" /\ pc'[p] # "updateProgress"
            /\ loc[p].errors # << >>
            /\ loc[p].errors[Len(loc[p].errors)].msg = "Batch insert error"
            /\ response'[p].code # 500
            /\ loc[p].i + BATCH_SIZE < loc[p].totalRows )
            => /\ pc'[p] = "selectVehicles"
               /\ loc'[p].i = loc[p].i + BATCH_SIZE]_vars

\* C10 witness: the bulk insert of the first sub-batch failed and the import
\* is in the second sub-batch.
C10_Witness ==
  \E p \in Calls :
    /\ pc[p] \in {"selectVehicles", "insertRates"}
    /\ loc[p].i > 0
    /\ \E k \in 1..Len(loc[p].errors) :
         loc[p].errors[k] = [msg |-> "Batch insert error", row |-> 0]

\* The error entry of the catch of the scoring statement.
ScoreFailure == [msg |-> "Score calculation failed", row |-> 0]

\* An error list without its score failure entries.
WithoutScoreFailure(errors) == SelectSeq(errors, LAMBDA e : e # ScoreFailure)

\* C11: the scoring step changes nothing but the error list, to which a
\* failure appends one 'Score calculation failed' entry; and the status
\* written and the success flag returned by the finalization that follows are
\* those of the counters alone, so they are the same whether scoring went
\* through or threw.
C11_ScoringKeepsVerdict ==
  [][\A p \in Calls :
       /\ (pc[p] = "executeScores" /\ pc'[p] = "updateFinal")
            => /\ loc'[p].errors \in {loc[p].errors, Append(loc[p].errors, ScoreFailure)}
               /\ [loc'[p] EXCEPT !.errors = loc[p].errors] = loc[p]
               /\ Store' = Store
       /\ (pc[p] = "updateFinal" /\ pc'[p] = "done" /\ response'[p].code # 500
             /\ HasBatch(p))
            => LET r == response'[p].result
                   b == CHOOSE c \in ratebookImports' : c.id = p
                   failed == 2 * loc[p].errorRows > loc[p].totalRows
               IN /\ r.success = ~failed
                  /\ b.status = (IF failed THEN "failed" ELSE "completed")
                  /\ r.errorRows = loc[p].errorRows /\ b.errorRows = loc[p].errorRows
                  /\ r.successRows = loc[p].successRows
                  /\ b.successRows = loc[p].successRows
                  /\ WithoutScoreFailure(r.errors)
                       = WithoutScoreFailure(Slice(loc[p].errors, OUTCOME_ERRORS_CAP))]_vars

\* C11 witness: an import whose scoring threw was finalized 'completed' and
\* answered success, with the score failure last in its error list.
C11_Witness ==
  \E p \in Calls :
    /\ Imported(p) /\ HasBatch(p) /\ BatchOf(p).status = "completed"
    /\ response[p].result.success
    /\ response[p].result.totalRows > 0
    /\ response[p].result.errors # << >>
    /\ response[p].result.errors[Len(response[p].result.errors)] = ScoreFailure

\* C12: no step lowers successRows, errorRows or uniqueCapCodes of an
\* ImportBatch record: every write of the counters, per sub-batch and final,
\* stores values at least as large as the ones stored before, also after a
\* failed bulk insert has rolled the in-memory success counter back.
C12_PersistedCountersGrow ==
  [][\A b \in ratebookImports : \A c \in ratebookImports' :
       b.id = c.id
         => /\ c.successRows >= b.successRows
            /\ c.errorRows >= b.errorRows
            /\ c.uniqueCapCodes >= b.uniqueCapCodes
            /\ c.totalRows >= b.totalRows]_vars

\* C12 witness: the bulk insert of a later sub-batch failed after an earlier
\* sub-batch had been stored, the progress update after the failure has been
\* written, and the persisted success counter still shows the earlier rows.
C12_Witness ==
  \E p \in Calls :
    /\ pc[p] \in {"executeScores", "updateFinal"} /\ HasBatch(p)
    /\ \E k \in 1..Len(loc[p].errors) :
         loc[p].errors[k].msg = "Batch insert error" /\ loc[p].errors[k].row > 0
    /\ BatchOf(p).successRows > 0
    /\ BatchOf(p).successRows = loc[p].successRows
    /\ BatchOf(p).errorRows = loc[p].errorRows

\* C13: every RateRecord references an existing ImportBatch, also while a
\* deletion of the batch is interleaved with the import that is still writing
\* it.  (Stated as claimed; the deletion is two statements and the import's
\* later bulk inserts are not held back by it.)
C13_RatesBelongToBatch ==
  \A r \in providerRates : \E b \in ratebookImports : b.id = r.importId

\* The 0-based indices, within the first `window` rows, of the rows that
\* satisfy Test.
RowsWithin(rows, window, Test(_)) ==
  {i \in 0..((IF Len(rows) < window THEN Len(rows) ELSE window) - 1) : Test(rows[i + 1])}

IsTermRow(row) ==
  Cardinality({k \in 1..Len(row) : TERM_PATTERN(Trim(row[k]))}) >= 3

Greatest(S) == CHOOSE i \in S : \A j \in S : j <= i

\* C15: detectMatrixRatebook answers isMatrix exactly when the first 30 rows
\* hold both a row with at least 3 cells matching the deposit+term pattern and
\* a row whose uppercased text contains a matrix marker; termRowIndex and
\* labelRowIndex are the indices of the last such rows in the window (null
\* when there is none), so that a table with only one kind is not matrix.
C15_MatrixDetection ==
  pc = "detectMatrixRatebook"
    => LET T == RowsWithin(req, 30, IsTermRow)
           L == RowsWithin(req, 30, HasMatrixLabel)
       IN /\ response.isMatrix <=> (T # {} /\ L # {})
          /\ response.termRowIndex = (IF T = {} THEN NULL ELSE Num(Greatest(T)))
          /\ response.labelRowIndex = (IF L = {} THEN NULL ELSE Num(Greatest(L)))

\* C15 witness: a table with two term rows and a label row was classified as
\* matrix, with the later term row as termRowIndex.
C15_Witness ==
  /\ pc = "detectMatrixRatebook"
  /\ Len(req) = 3 /\ IsTermRow(req[1]) /\ IsTermRow(req[2]) /\ HasMatrixLabel(req[3])
  /\ response.isMatrix
  /\ response.termRowIndex = Num(1) /\ response.labelRowIndex = Num(2)

\* The mileage-band rows of a table whose term row has 0-based index t: the
\* 1-based positions of the rows strictly after it whose first cell is not
\* empty, in order.
BandRows(rows, t) ==
  SelectSeq([k \in 1..Len(rows) |-> k],
            LAMBDA k : k > t + 1 /\ rows[k] # << >> /\ Trim(rows[k][1]) # << >>)

\* C14: for a matrix table with N mileage-band rows and M term-code columns,
\* parseMatrixToFlat returns exactly N rows; each holds, besides Mileage (the
\* trimmed first cell of its band row), exactly M term-code values, each the
\* cell of the band row in that term code's column.  (Stated as claimed; the
\* function returns the first SAMPLE_ROWS band rows only.)
C14_MatrixTransposition ==
  (pc = "parseMatrixToFlat"
     /\ RowsWithin(req, 30, IsTermRow) # {} /\ RowsWithin(req, 30, HasMatrixLabel) # {})
    => LET t == Greatest(RowsWithin(req, 30, IsTermRow))
           termRow == req[t + 1]
           columns == {k \in 1..Len(termRow) : TERM_PATTERN(Trim(termRow[k]))}
           bands == BandRows(req, t)
           out == response.sampleRows
       IN /\ Len(out) = Len(bands)
          /\ \A j \in 1..Len(out) :
               j <= Len(bands)
                 => LET band == req[bands[j]]
                    IN /\ out[j][MileageKey] = Trim(band[1])
                       /\ Cardinality(DOMAIN out[j] \ {MileageKey}) = Cardinality(columns)
                       /\ \A k \in columns :
                            /\ Trim(termRow[k]) \in DOMAIN out[j]
                            /\ out[j][Trim(termRow[k])]
                                 = (IF k <= Len(band) THEN Trim(band[k]) ELSE << >>)

\* The number of cells of a row that are not empty once trimmed.
Filled(row) == Cardinality({k \in 1..Len(row) : Trim(row[k]) # << >>})

Least(S) == CHOOSE i \in S : \A j \in S : i <= j

\* C16: findHeaderRowIndex returns the first row with the greatest number of
\* non-empty cells among the first 15 rows when that number is at least 5;
\* otherwise the first of the first 10 rows whose uppercased text contains a
\* header keyword; otherwise the (first) fullest row of the first 15.
C16_FlatHeaderRow ==
  (pc = "findHeaderRowIndex" /\ req # << >>)
    => LET window == 0..(Min(15, Len(req)) - 1)
           most == Greatest({Filled(req[i + 1]) : i \in window})
           fullest == Least({i \in window : Filled(req[i + 1]) = most})
           keyword == RowsWithin(req, 10, HasHeaderKeyword)
       IN response = (IF most >= 5 THEN fullest
                      ELSE IF keyword # {} THEN Least(keyword)
                      ELSE fullest)

\* C16 witness: a title row comes before two equally full header rows of 5
\* cells; the first of the two is returned.
C16_Witness ==
  /\ pc = "findHeaderRowIndex"
  /\ req = <<RowTitle, RowHeader, RowHeader>>
  /\ response = 1

\* The texts of a row that match the deposit+term pattern, trimmed, in order.
TermCodes(row) ==
  SelectSeq([k \in 1..Len(row) |-> Trim(row[k])], TERM_PATTERN)

\* C17: when the first 30 rows hold both a term row and a marker row,
\* extractHeadersFromXlsx returns the matrix result whatever the flat header
\* detection finds: isMatrix is true, headerRowIndex is the index of the term
\* row, and headers are the fixed metadata headers, 'Mileage' and the term
\* codes of that row.
C17_MatrixTakesPrecedence ==
  (pc = "extractHeadersFromXlsx"
     /\ RowsWithin(req, 30, IsTermRow) # {} /\ RowsWithin(req, 30, HasMatrixLabel) # {})
    => LET t == Greatest(RowsWithin(req, 30, IsTermRow))
       IN /\ response.isMatrix
          /\ response.headerRowIndex = t
          /\ Len(response.headers) = 9 + Len(TermCodes(req[t + 1]))
          /\ SubSeq(response.headers, 1, 8) = SubSeq(MATRIX_HEADERS, 1, 8)
          /\ response.headers[9] = <<"M", "i", "l", "e", "a", "g", "e">>
          /\ SubSeq(response.headers, 10, Len(response.headers)) = TermCodes(req[t + 1])

\* C17 witness: a row of 5 filled cells with header keywords comes first, the
\* marker row and the term row after it; the matrix result is returned, with
\* the term row as header row.
C17_Witness ==
  /\ pc = "extractHeadersFromXlsx"
  /\ req = <<RowHeader, RowLabel, RowTerms>>
  /\ response.isMatrix /\ response.headerRowIndex = 2
  /\ Len(response.headers) = 12

\* The 1-based positions, in declaration order, of the fields one of whose
\* patterns matches the header.
MatchingFields(header) ==
  {k \in 1..Len(patterns) :
     \E r \in 1..Len(patterns[k].regexes) : RegexTest(patterns[k].regexes[r], header)}

Targets(result) == [k \in 1..Len(result.mappings) |-> result.mappings[k].targetField]

\* C18 as stated: for ["CAP_CODE", "Net_Rental", "ANNUAL_MILEAGE"] the three
\* columns are mapped to capCode, totalRental and annualMileage and no
\* required field is reported as unmapped.
C18_ScenarioNothingMissing ==
  (pc = "fallbackAnalysis" /\ req = <<H_CAP_CODE, H_Net_Rental, H_ANNUAL_MILEAGE>>)
    => /\ Targets(response) = <<"capCode", "totalRental", "annualMileage">>
       /\ response.missingRequiredFields = << >>

\* C18: fallbackAnalysis maps every column to the first field, in declaration
\* order, that has a pattern matching it, and to null when none has; the
\* required fields it reports missing are those no column was mapped to.  For
\* ["CAP_CODE", "Net_Rental", "ANNUAL_MILEAGE"] the targets are capCode,
\* totalRental and annualMileage, none of these three is reported missing,
\* and manufacturer, model and term, which no column carries, are.
C18_HeuristicResolution ==
  pc = "fallbackAnalysis"
    => /\ Len(response.mappings) = Len(req)
       /\ \A k \in 1..Len(req) :
            /\ response.mappings[k].sourceColumn = req[k]
            /\ response.mappings[k].targetField
                 = (IF MatchingFields(req[k]) = {} THEN NoField
                    ELSE DATABASE_FIELDS[Least(MatchingFields(req[k]))].key)
       /\ {response.missingRequiredFields[k] : k \in 1..Len(response.missingRequiredFields)}
            = {f \in {"capCode", "manufacturer", "model", "term", "annualMileage",
                      "totalRental"} :
                 \A k \in 1..Len(req) : response.mappings[k].targetField # f}
       /\ req = <<H_CAP_CODE, H_Net_Rental, H_ANNUAL_MILEAGE>>
            => /\ Targets(response) = <<"capCode", "totalRental", "annualMileage">>
               /\ response.missingRequiredFields = <<"manufacturer", "model", "term">>

\* C18 witness: the scenario's three columns were resolved.
C18_Witness ==
  /\ pc = "fallbackAnalysis"
  /\ req = <<H_CAP_CODE, H_Net_Rental, H_ANNUAL_MILEAGE>>
  /\ Targets(response) = <<"capCode", "totalRental", "annualMileage">>
  /\ response.unmappedColumns = << >>
  /\ response.missingRequiredFields = <<"manufacturer", "model", "term">>

\* C19: whenever the suggestion service has failed (it rejected the request,
\* answered nothing or nothing usable, or there are no credentials for it) and
\* the resolution has come to its end, analyzeColumnHeaders has returned the
\* result of the heuristic pattern matching over the same headers.  (Stated
\* as claimed; without credentials the module may fail to load.)
C19_AiFailureFallsBack ==
  (pc \in {"done", "loadFailed"} /\ (~loc.apiKey \/ loc.reply \in AiFailures))
    => (pc = "done" /\ response = fallbackAnalysis(req))

CellOf(row, column) == IF column \in DOMAIN row THEN row[column] ELSE NULL

\* C21: a row with a CAP code is not rejected, and its term, annualMileage and
\* totalRental are the parsed values of its cells, or 36, 10000 and 0 where
\* the cell is absent or does not parse.
C21_RequiredDefaults ==
  (pc = "rowFields" /\ Trim(String(Or(CellOf(req.row, "CAP_CODE"), Str(<< >>)))) # << >>)
    => /\ ~response.rejected
       /\ response.term =
            (IF parseInt2(CellOf(req.row, "TERM")) = NULL THEN Num(36)
             ELSE parseInt2(CellOf(req.row, "TERM")))
       /\ response.annualMileage =
            (IF parseInt2(CellOf(req.row, "MILES")) = NULL THEN Num(10000)
             ELSE parseInt2(CellOf(req.row, "MILES")))
       /\ response.totalRental =
            (IF toPence(CellOf(req.row, "RENTAL"), req.drift) = NULL THEN Num(0)
             ELSE toPence(CellOf(req.row, "RENTAL"), req.drift))

\* The row has nothing under the column: no cell, or a blank one.
OwnAbsent(row, column) ==
  \/ CellOf(row, column) = NULL
  \/ CellOf(row, column).t = "str" /\ Trim(CellOf(row, column).v) = << >>

\* The row's own text under the column.
OwnText(row, column) == Trim(String(CellOf(row, column)))

\* C22: the cross-reference sets vehicleId exactly for the rates whose CAP
\* code is in the vehicle master, and it changes the manufacturer, the model
\* or the variant of a rate only where the row's own value is absent or is
\* the sentinel "UNKNOWN" (for the manufacturer, which is stored in upper
\* case, in any letter case).
C22_CrossReferenceFills ==
  pc = "crossReference"
    => LET matched == \E v \in Vehicles : v.capCode = loc.capCode
       IN /\ (response.vehicleId # 0) <=> matched
          /\ matched => \E v \in Vehicles :
                          v.capCode = loc.capCode /\ response.vehicleId = v.vehicleId
          /\ response.manufacturer # loc.manufacturer
               => \/ OwnAbsent(req.row, "MAKE")
                  \/ ToUpperCase(OwnText(req.row, "MAKE")) = UNKNOWN_UPPER
          /\ response.model # loc.model
               => \/ OwnAbsent(req.row, "MODEL")
                  \/ OwnText(req.row, "MODEL") = UNKNOWN_UPPER
          /\ response.variant # loc.variant
               => \/ OwnAbsent(req.row, "VARIANT")
                  \/ OwnText(req.row, "VARIANT") = UNKNOWN_UPPER

\* s is the prefix of full that has at most cap entries.
IsCappedPrefix(s, full, cap) ==
  /\ Len(s) = (IF Len(full) < cap THEN Len(full) ELSE cap)
  /\ \A k \in 1..Len(s) : s[k] = full[k]

\* C23: every outcome lists at most 20 errors and every batch keeps at most
\* 100 in its errorLog, and when an import is finalized both are prefixes of
\* the errors it has collected, in the order they occurred.
C23_ErrorListsBounded ==
  /\ [](/\ \A p \in Calls : Len(response[p].result.errors) <= 20
        /\ \A b \in ratebookImports : Len(b.errorLog) <= 100)
  /\ [][\A p \in Calls :
          (pc[p] = "updateFinal" /\ pc'[p] = "done" /\ response'[p].code # 500)
            => /\ IsCappedPrefix(response'[p].result.errors, loc[p].errors, 20)
               /\ \A b \in ratebookImports' :
                    b.id = loc[p].importId
                      => IsCappedPrefix(b.errorLog, loc[p].errors, 100)]_vars

\* C23 witness: an import with more than 100 error rows has answered with 20
\* errors and left 100 in the errorLog of its batch.
C23_Witness ==
  \E p \in Calls :
    /\ pc[p] = "done"
    /\ response[p].result.errorRows > 100
    /\ Len(response[p].result.errors) = 20
    /\ \E b \in ratebookImports :
         /\ b.id = response[p].result.importId
         /\ b.errorRows > 100
         /\ Len(b.errorLog) = 100

\* The value next to an explicit "CAP CODE" label in the first 15 rows: the
\* first non-empty cell after a cell that reads CAP CODE; null without one.
LabelledCapCode(rows) ==
  LET window == 1..(IF Len(rows) < 15 THEN Len(rows) ELSE 15)
      hits == {<<r, i>> \in window \X (1..5) :
                 /\ i < Len(rows[r])
                 /\ ToUpperCase(Trim(rows[r][i])) = L_CAP_CODE
                 /\ \E j \in (i + 1)..Len(rows[r]) : Trim(rows[r][j]) # << >>}
      first == CHOOSE h \in hits :
                 \A g \in hits : h[1] < g[1] \/ (h[1] = g[1] /\ h[2] <= g[2])
      row == rows[first[1]]
      j == Least({k \in (first[2] + 1)..Len(row) : Trim(row[k]) # << >>})
  IN IF hits = {} THEN NULL ELSE Str(Trim(row[j]))

\* C24: the CAP code of the matrix metadata is the value next to an explicit
\* "CAP CODE" label when the first 15 rows have one, and the result of the
\* scan for a CAP-code-shaped text only when they have none.
C24_LabelBeforeScan ==
  pc = "parseMatrixMeta"
    => response.capCode = (IF LabelledCapCode(req) # NULL THEN LabelledCapCode(req)
                           ELSE findCapCode(req))

C26_ImportReachesFinalStatus ==
  \A p \in Calls :
    HasBatch(p) ~> (HasBatch(p) /\ BatchOf(p).status \in {"completed", "failed"})

\* C27: a batch is created with isLatest = true; the flag of an existing batch
\* only ever goes from true to false, and only in the demotion step of an
\* import for the same providerCode and contractType that has not created its
\* own batch yet; that step leaves the flag of every batch of another provider
\* or contract type as it was; and no batch disappears, so that a demoted
\* batch is never latest again.
C27_LatestOnlyDemoted ==
  [][/\ \A c \in ratebookImports' :
          (\A b \in ratebookImports : b.id # c.id) => c.isLatest
     /\ \A b \in ratebookImports : \E c \in ratebookImports' : c.id = b.id
     /\ \A b \in ratebookImports : \A c \in ratebookImports' :
          (b.id = c.id /\ b.isLatest # c.isLatest)
            => /\ b.isLatest /\ ~c.isLatest
               /\ \E q \in Calls : DemotesKeyOf(q, b) /\ ~HasBatch(q)
     /\ \A q \in Calls :
          (pc[q] = "updateLatest" /\ pc'[q] = "insertImport")
            => \A b \in ratebookImports : \A c \in ratebookImports' :
                 (b.id = c.id /\ (b.providerCode # req[q].providerCode
                                    \/ b.contractType # req[q].contractType))
                   => c.isLatest = b.isLatest]_vars

\* C27 witness: a batch was demoted by a newer import for its provider and
\* contract type, whose own batch is latest and still being processed.
C27_Witness ==
  \E p, q \in Calls :
    /\ p # q /\ HasBatch(p) /\ HasBatch(q)
    /\ BatchOf(p).providerCode = BatchOf(q).providerCode
    /\ BatchOf(p).contractType = BatchOf(q).contractType
    /\ ~BatchOf(p).isLatest /\ BatchOf(p).status = "completed"
    /\ BatchOf(q).isLatest /\ BatchOf(q).status = "processing"

\* C28: the progress update of a sub-batch persists counters whose sum is the
\* number of rows processed so far; the outcome of an import that got past
\* parsing has successRows + errorRows = totalRows, totalRows being the number
\* of rows of the file, and successRows is the number of RateRecords the batch
\* holds.
C28_RowsCountedOnce ==
  /\ [](\A p \in Calls :
          (Imported(p) /\ HasBatch(p) /\ ~IsParseFailure(response[p]))
            => LET r == response[p].result
               IN /\ r.successRows + r.errorRows = r.totalRows
                  /\ r.totalRows = Len(FileOf(BatchOf(p)).records)
                  /\ r.successRows = Cardinality(RatesOf(p))
                  /\ r.successRows >= 0 /\ r.errorRows >= 0)
  /\ [][\A p \in Calls :
          (pc[p] = "updateProgress" /\ pc'[p] \notin {"updateProgress", "done"})
            => \E b \in ratebookImports' :
                 /\ b.id = loc[p].importId
                 /\ b.successRows + b.errorRows
                      = (IF loc[p].i + BATCH_SIZE < loc[p].totalRows
                         THEN loc[p].i + BATCH_SIZE ELSE loc[p].totalRows)
                 /\ b.totalRows = loc[p].totalRows]_vars

\* C28 witness: of the four rows of a file two had no CAP code and one was in
\* a sub-batch whose insert failed; the outcome counts 1 + 3 and the batch
\* holds one RateRecord.
C28_Witness ==
  \E p \in Calls :
    /\ Imported(p) /\ HasBatch(p)
    /\ response[p].result.totalRows = 4
    /\ response[p].result.successRows = 1
    /\ response[p].result.errorRows = 3
    /\ Cardinality(RatesOf(p)) = 1


\* The batches that hold the bytes of call p's request under its provider,
\* whatever their contract type, file name and status.
SameBytesSameProvider(p) ==
  {b \in ratebookImports : /\ b.providerCode = req[p].providerCode
                           /\ b.fileHash = generateFileHash(req[p].fileContent)}

\* C29: duplicate detection depends only on (providerCode, content hash).  When
\* a call's duplicate check answers (the lookup itself not failing), the call
\* is rejected as a duplicate exactly when some batch holds the same bytes
\* under the same providerCode, whatever that batch's contract type, file name
\* and status and whether or not it holds RateRecords; otherwise (the bytes
\* being held by no batch, or by batches of other providers only) the import
\* goes on.
C29_DuplicateByProviderAndHash ==
  [][\A p \in Calls :
       ( /\ pc[p] = "selectExisting" /\ pc'[p] # "selectExisting"
         /\ response'[p].code # 500 )
       => IF SameBytesSameProvider(p) # {}
          THEN /\ pc'[p] = "done" /\ IsDuplicateAnswer(response'[p])
               /\ ratebookImports' = ratebookImports
               /\ providerRates' = providerRates
          ELSE pc'[p] = "selectProvider"]_vars

\* C29 witness: a batch sent as a workbook for contract type PCH failed at
\* parsing and holds no RateRecords; the other call was answered "duplicate"
\* and created nothing.
C29_Witness ==
  \E p, q \in Calls :
    /\ HasBatch(q) /\ BatchOf(q).status = "failed" /\ RatesOf(q) = {}
    /\ BatchOf(q).totalRows = 0
    /\ isXLSX(BatchOf(q).fileName) /\ BatchOf(q).contractType = "PCH"
    /\ pc[p] = "done" /\ IsDuplicateAnswer(response[p])
    /\ ~HasBatch(p)


\* The batches of the provider and contract type of call p's request, other
\* than the call's own.
EarlierOfKey(p) ==
  {b \in ratebookImports : /\ b.id # p
                           /\ b.providerCode = req[p].providerCode
                           /\ b.contractType = req[p].contractType}

\* C30: the previous latest batch is demoted before the file is parsed, so an
\* import that fails at parsing still supersedes it.  With imports sent one
\* after another: no step of an import before its row loop adds or removes a
\* RateRecord; when the parse of call p's file throws, no earlier batch of the
\* request's provider and contract type is latest any more; and when the catch
\* of the parse has answered, the only latest batch of that provider and
\* contract type is the call's own, with status 'failed' and no RateRecords,
\* every earlier batch of the pair being not latest.
C30_ParseFailureSupersedes ==
  [][\A p \in Calls :
       /\ pc[p] \in {"selectExisting", "selectProvider", "insertProvider",
                     "updateLatest", "insertImport", "updateParseFailed"}
            => providerRates' = providerRates
       /\ (pc[p] = "insertImport" /\ pc'[p] = "updateParseFailed")
            => /\ \A b \in EarlierOfKey(p) : ~b.isLatest
               /\ \A b \in ratebookImports : b \in ratebookImports'
       /\ (pc[p] = "updateParseFailed" /\ IsParseFailure(response'[p]))
            => /\ {b \in ratebookImports' :
                     /\ b.providerCode = req[p].providerCode
                     /\ b.contractType = req[p].contractType
                     /\ b.isLatest}
                    = {b \in ratebookImports' : b.id = p}
               /\ \E b \in ratebookImports' :
                    b.id = p /\ b.isLatest /\ b.status = "failed"
               /\ {r \in providerRates' : r.importId = p} = {}
               /\ \A b \in ratebookImports :
                    b.id # p => (b \in ratebookImports')]_vars

\* C30 witness: the first import was completed and holds RateRecords; the
\* second, for the same provider and contract type, failed at parsing; its
\* batch is the latest, is 'failed' and holds no RateRecords, and the first
\* batch is no longer latest and still holds its RateRecords.
C30_Witness ==
  \E p, q \in Calls :
    /\ p # q /\ HasBatch(p) /\ HasBatch(q)
    /\ BatchOf(q).providerCode = BatchOf(p).providerCode
    /\ BatchOf(q).contractType = BatchOf(p).contractType
    /\ BatchOf(q).status = "completed" /\ RatesOf(q) # {}
    /\ ~BatchOf(q).isLatest
    /\ pc[p] = "done" /\ IsParseFailure(response[p])
    /\ BatchOf(p).status = "failed" /\ BatchOf(p).isLatest
    /\ RatesOf(p) = {}

====
